---- MODULE Spec2Model ----
(***************************************************************************)
(* Consumer-side dataspace client: transport, EDR poller, data fetcher and *)
(* the workflow controller that chains them.                               *)
(*   src/consumer/dataspace_client.py   DataspaceClient                    *)
(*   src/consumer/uc_controller.py      UcController                       *)
(*                                                                         *)
(* Python values are tagged records, so that values of different Python    *)
(* types can be compared:  None, str, int, list, dict, requests.Response.  *)
(* Time is counted in whole seconds since get_cached_edrs read start_time; *)
(* it advances only while the thread is blocked in an HTTP request or in   *)
(* time.sleep.                                                             *)
(***************************************************************************)
EXTENDS Integers, Sequences, FiniteSets, TLC

VARIABLES
    pc,                         \* control point of the running call
    reqs,                       \* every HTTP request handed to requests.request, in order
    last_response_status_code,  \* DataspaceClient.last_response_status_code
    edr_polling_timeout_seconds,\* DataspaceClient.edr_polling_timeout_seconds
    edr_cache_before,           \* the provider's EDR cache when the run starts: its finalized entries
    provider_settings,          \* provider settings: which of bucket, bpn, s3 are configured
    res,                        \* _create_dataspace_entries: res
    success,                    \* _create_dataspace_entries: success
    answers,                    \* history: what EdcManager._send_request returned, in order
    asset_id_for_filter,        \* get_cached_edrs: argument
    attempt,                    \* get_cached_edrs: attempt
    clock,                      \* get_cached_edrs: time.time() - start_time
    response_data,              \* get_cached_edrs: response_data while it is scanned and when an
                                \* entry of it is returned; after a fruitless scan, its class
    poll_result,                \* get_cached_edrs: the returned pair
    polled,                     \* history: per query issued, whether its response held a finalized match
    mode,                       \* who runs: "workflow", or a direct call of "poll", "fetch", "filename",
                                \* "catalog", "negotiate", "send"
    target_asset_id,            \* run_consumer_workflow: argument
    asset_id_to_process,        \* run_consumer_workflow: asset_id_to_process
    policy_object_to_process,   \* run_consumer_workflow: policy_object_to_process
    edr_id,                     \* run_consumer_workflow: edr_id (the negotiation id)
    all_datasets,               \* run_consumer_workflow: all_datasets, until the selection is made
    wf_result,                  \* run_consumer_workflow: Running, the value returned, or Raised
    stages,                     \* history: the client methods invoked, in order
    data_address,               \* access_data: argument
    retrieved_data_path,        \* access_data: the value returned
    content_disposition,        \* access_data: Content-Disposition of the download response
    safe_filename,              \* access_data: safe_filename
    handle_log,                 \* history: the handles access_data opened and closed, and what failed
    scripted,                   \* a direct call of one client method: what the network will answer
    returned                    \* a direct call of one client method: the value returned, or Raised

netVars == <<reqs, last_response_status_code>>
pollVars == <<asset_id_for_filter, attempt, clock, response_data, poll_result, polled>>
wfVars == <<target_asset_id, asset_id_to_process, policy_object_to_process, edr_id,
            all_datasets, wf_result>>
fetchVars == <<data_address, retrieved_data_path, content_disposition, safe_filename,
               handle_log>>
cfgVars == <<edr_polling_timeout_seconds, mode, edr_cache_before>>
entriesVars == <<provider_settings, res, success, answers>>
callVars == <<scripted, returned>>

vars == <<pc, netVars, pollVars, wfVars, stages, fetchVars, cfgVars, entriesVars, callVars>>

(***************************************************************************)
(* Bounds of the model.                                                    *)
(***************************************************************************)
MaxTimeout == 3     \* largest configured polling timeout explored (seconds)
MaxDelay == 2       \* longest time one request, or one sleep overshoot, takes (seconds)
MaxEntries == 2     \* longest EDR cache list explored
MaxCdLen == 4       \* longest Content-Disposition value enumerated
MaxDatasets == 2    \* longest dataset list of a catalog answer enumerated

(***************************************************************************)
(* Python values.                                                          *)
(***************************************************************************)
None == [t |-> "none"]
Str(s) == [t |-> "str", s |-> s]
Num(n) == [t |-> "num", n |-> n]
List(items) == [t |-> "list", items |-> items]
Dict(kv) == [t |-> "dict", kv |-> kv]
Chars(c) == [t |-> "chars", c |-> c]    \* a str the code takes apart, one element per character
EmptyDict == Dict(<<>>)
Raised == [t |-> "raised"]              \* an exception leaves the function
Running == [t |-> "running"]            \* the function has not returned yet

isdict(v) == v.t = "dict"
islist(v) == v.t = "list"

\* bool(v): Python truthiness
Truthy(v) ==
    CASE v.t = "none" -> FALSE
      [] v.t = "str"  -> v.s # ""
      [] v.t = "num"  -> v.n # 0
      [] v.t = "list" -> v.items # <<>>
      [] v.t = "chars" -> v.c # <<>>
      [] v.t = "dict" -> DOMAIN v.kv # {}
      [] OTHER        -> TRUE

\* d.get(k)
Get(d, k) == IF k \in DOMAIN d.kv THEN d.kv[k] ELSE None

\* k in d
HasKey(d, k) == k \in DOMAIN d.kv

(***************************************************************************)
(* Configuration (settings, validated by DataspaceClient.__init__).        *)
(***************************************************************************)
api_key == "api-key"
provider_bpn == "BPNL-PROVIDER"
polling_interval == 1

\* DataspaceClient._get_management_headers
_get_management_headers ==
    IF api_key # ""
    THEN ("Content-Type" :> "application/json") @@ ("X-API-Key" :> api_key)
    ELSE ("Content-Type" :> "application/json")

(***************************************************************************)
(* Transport.  What the network gives back for one requests.request call:  *)
(* an exception, or a status code with a body (and, for a download, the    *)
(* Content-Disposition header).                                            *)
(***************************************************************************)
RawExc == [exc |-> TRUE, status |-> 0, content |-> "empty", json |-> None, text |-> "", cd |-> None]
RawEmpty(status) == [exc |-> FALSE, status |-> status, content |-> "empty", json |-> None, text |-> "", cd |-> None]
RawJson(status, v) == [exc |-> FALSE, status |-> status, content |-> "json", json |-> v, text |-> "json", cd |-> None]
RawText(status, txt) == [exc |-> FALSE, status |-> status, content |-> "text", json |-> None, text |-> txt, cd |-> None]
RawDownload(status, cd) == [exc |-> FALSE, status |-> status, content |-> "text", json |-> None, text |-> "bytes", cd |-> cd]

\* provider settings with DEFAULT_BUCKET_NAME, CONSUMER_BPN and the S3 endpoint and keys set
AllConfigured == [bucket |-> TRUE, bpn |-> TRUE, s3 |-> TRUE]

\* the request as requests.request receives it
Request(op, method, url, headers, body, stream) ==
    [op |-> op, method |-> method, url |-> url,
     headers |-> IF headers = None THEN _get_management_headers ELSE headers,
     body |-> body, stream |-> stream]

\* a request log in which every request goes out twice
Sent_Twice(log, request) == Append(Append(log, request), request)

\* requests.request is called once per _send_request: the log after the call
Sent(log, request) == Append(log, request)

\* a transport that hands out the response handle of a streamed call whatever its status
_send_request_StreamIgnoresStatus(raw, stream) ==
    IF raw.exc
    THEN Dict(("error" :> Str("exception")) @@ ("status_code" :> None))
    ELSE IF stream
    THEN [t |-> "response", status |-> raw.status, cd |-> raw.cd]
    ELSE IF raw.content = "json" THEN raw.json
    ELSE Dict(("status" :> Str("success_no_content")) @@ ("status_code" :> Num(raw.status)))

\* DataspaceClient._send_request: the value returned for a network outcome
_send_request(raw, stream) ==
    IF raw.exc
    THEN Dict(("error" :> Str("exception")) @@ ("status_code" :> None))
    ELSE IF 200 <= raw.status /\ raw.status < 300
    THEN IF stream
         THEN [t |-> "response", status |-> raw.status, cd |-> raw.cd]
         ELSE IF raw.content = "empty"
         THEN Dict(("status" :> Str("success_no_content")) @@ ("status_code" :> Num(raw.status)))
         ELSE IF raw.content = "json"
         THEN raw.json
         ELSE Dict(("status" :> Str("success_non_json")) @@ ("content" :> Str(raw.text))
                   @@ ("status_code" :> Num(raw.status)))
    ELSE IF raw.content = "json"
         THEN Dict(("error" :> raw.json) @@ ("status_code" :> Num(raw.status)))
         ELSE Dict(("error" :> Str(raw.text)) @@ ("status_code" :> Num(raw.status)))

\* DataspaceClient._send_request: last_response_status_code after the call
StatusAfter(raw, before) == IF raw.exc THEN before ELSE Num(raw.status)

(***************************************************************************)
(* EDR poller: DataspaceClient.get_cached_edrs.                            *)
(***************************************************************************)
NoResult == <<None, None>>

\* a deadline test that gives up one interval early
TimedOut_OneIntervalEarly(elapsed) == elapsed + polling_interval >= edr_polling_timeout_seconds

\* the elapsed-time test made before each query and before each sleep
TimedOut(elapsed) == elapsed >= edr_polling_timeout_seconds

\* a scan that does not compare the entry's assetId with the filter
Finalized_IgnoresFilter(edr_entry, filter) ==
    /\ isdict(edr_entry)
    /\ Truthy(Get(edr_entry, "transferProcessId"))

\* one entry of the cache response, as the scan loop judges it
Finalized(edr_entry, filter) ==
    /\ isdict(edr_entry)
    /\ ~(Truthy(filter) /\ Get(edr_entry, "assetId") # filter)
    /\ Truthy(Get(edr_entry, "transferProcessId"))

\* the for loop over the entries: the first finalized entry ends it
RECURSIVE ScanEntries(_, _)
ScanEntries(items, filter) ==
    IF items = <<>> THEN NoResult
    ELSE IF Finalized(Head(items), filter)
         THEN <<Get(Head(items), "transferProcessId"), Head(items)>>
         ELSE ScanEntries(Tail(items), filter)

\* the three-way classification of response_data
Classify(resp) ==
    IF isdict(resp) /\ Truthy(Get(resp, "error")) THEN "error"
    ELSE IF islist(resp) THEN "list"
    ELSE "unexpected"

\* what one attempt finds in response_data
AttemptResult(resp, filter) ==
    IF Classify(resp) = "list" THEN ScanEntries(resp.items, filter) ELSE NoResult

\* the QuerySpec payload: providerId always, assetId when a filter is given
EdrQueryPayload(filter) ==
    Dict(("@context" :> Dict("@vocab" :> Str("edc_namespace")))
         @@ ("@type" :> Str("QuerySpec"))
         @@ ("filterExpression" :>
               List(<<Dict(("operandLeft" :> Str("providerId")) @@ ("operator" :> Str("="))
                           @@ ("operandRight" :> Str(provider_bpn)))>>
                    \o (IF Truthy(filter)
                        THEN <<Dict(("operandLeft" :> Str("assetId")) @@ ("operator" :> Str("="))
                                    @@ ("operandRight" :> filter))>>
                        ELSE <<>>))))

EdrQuery(filter) ==
    Request("edr_query", "POST", <<"data", "v2", "edrs", "request">>, None,
            EdrQueryPayload(filter), FALSE)

\* what the provider's cache endpoint can answer
Entry(asset, tpid, id) ==
    Dict([k \in ({"assetId"} \cup (IF tpid = None THEN {} ELSE {"transferProcessId"})
                  \cup (IF id = None THEN {} ELSE {"@id"}))
          |-> CASE k = "assetId" -> asset [] k = "transferProcessId" -> tpid [] OTHER -> id])

Entries ==
    { Entry(Str("asset-1"), Str("tp-1"), Str("edr-1")),
      Entry(Str("asset-2"), Str("tp-2"), Str("edr-2")),
      Entry(Str("asset-1"), None, Str("edr-1")),
      Entry(Str("asset-1"), Str(""), Str("edr-3")),
      Entry(Str("asset-1"), Str("tp-1"), None),
      Str("not-an-object") }

EntryLists == UNION { [1..n -> Entries] : n \in 0..MaxEntries }

EdrRaws ==
    { RawExc, RawEmpty(500), RawEmpty(204), RawText(200, "<html>"),
      RawJson(500, Dict("message" :> Str("boom"))), RawJson(500, EmptyDict),
      RawJson(200, EmptyDict), RawJson(200, None),
      RawJson(200, Dict("error" :> Str("flagged"))) }
    \cup { RawJson(200, List(l)) : l \in EntryLists }

Delays == 0..MaxDelay

\* get_cached_edrs is entered: start_time is read, attempt = 0
PollBegin ==
    /\ pc = "poll_call"
    /\ pc' = "poll_loop"
    /\ attempt' = 0
    /\ clock' = 0
    /\ response_data' = None
    /\ poll_result' = NoResult
    /\ polled' = <<>>
    /\ stages' = Append(stages, "get_cached_edrs")
    /\ UNCHANGED <<netVars, asset_id_for_filter, wfVars, fetchVars, cfgVars, entriesVars, callVars>>

\* history: the N-th network answer holds an entry for the filtered asset with a
\* transferProcessId (the answer the poller is waiting for)
AnswerHasMatch(raw, filter) ==
    /\ ~raw.exc
    /\ raw.status \in 200..299
    /\ raw.content = "json"
    /\ islist(raw.json)
    /\ \E i \in 1..Len(raw.json.items) :
          LET e == raw.json.items[i]
          IN  /\ isdict(e)
              /\ Get(e, "transferProcessId") \notin {None, Str("")}
              /\ (filter \in {None, Str("")} \/ Get(e, "assetId") = filter)

\* a response whose scan found nothing: only the branch taken (the line logged) matters
Scanned(resp) == [t |-> "scanned", class |-> Classify(resp)]

\* a loop without the re-check of the deadline before the sleep
AfterAttempt_SleepsPastDeadline(class, found, elapsed) ==
    IF class = "list" /\ found # NoResult THEN "poll_return" ELSE "poll_sleep"

\* a loop in which an error result ends the polling
AfterAttempt_GivesUpOnError(class, found, elapsed) ==
    IF class = "list" /\ found # NoResult THEN "poll_return"
    ELSE IF class = "error" \/ TimedOut(elapsed) THEN "poll_return"
    ELSE "poll_sleep"

\* where the loop goes once response_data is classified and scanned: the return inside
\* the for loop, else the re-check before the sleep
AfterAttempt(class, found, elapsed) ==
    IF class = "list" /\ found # NoResult THEN "poll_return"
    ELSE IF TimedOut(elapsed) THEN "poll_return"
    ELSE "poll_sleep"

\* a sleep that does not advance the time
SleepUntil_NoWait(now, overshoot) == now

\* the time when time.sleep(self.polling_interval) returns
SleepUntil(now, overshoot) == now + polling_interval + overshoot

\* one pass of the while loop, from the attempt counter to the sleep or a return
PollAttempt ==
    /\ pc = "poll_loop"
    /\ attempt' = attempt + 1
    /\ IF TimedOut(clock)
       THEN /\ pc' = "poll_return"
            /\ poll_result' = NoResult
            /\ UNCHANGED <<netVars, clock, response_data, polled>>
       ELSE \E raw \in EdrRaws, d \in Delays :
              LET resp == _send_request(raw, FALSE)
                  found == AttemptResult(resp, asset_id_for_filter)
              IN  /\ reqs' = Sent(reqs, EdrQuery(asset_id_for_filter))
                  /\ last_response_status_code' = StatusAfter(raw, last_response_status_code)
                  /\ clock' = clock + d
                  /\ response_data' = IF found # NoResult THEN resp ELSE Scanned(resp)
                  /\ polled' = Append(polled, AnswerHasMatch(raw, asset_id_for_filter))
                  /\ poll_result' = found
                  /\ pc' = AfterAttempt(Classify(resp), found, clock + d)
    /\ UNCHANGED <<asset_id_for_filter, wfVars, stages, fetchVars, cfgVars, entriesVars, callVars>>

\* time.sleep(self.polling_interval)
PollSleep ==
    /\ pc = "poll_sleep"
    /\ \E d \in Delays : clock' = SleepUntil(clock, d)
    /\ pc' = "poll_loop"
    /\ response_data' = None
    /\ UNCHANGED <<netVars, asset_id_for_filter, attempt, poll_result, polled,
                   wfVars, stages, fetchVars, cfgVars, entriesVars, callVars>>

\* a direct caller receives the pair
PollReturn ==
    /\ pc = "poll_return"
    /\ mode = "poll"
    /\ pc' = "poll_done"
    /\ response_data' = None
    /\ UNCHANGED <<netVars, asset_id_for_filter, attempt, clock, poll_result, polled,
                   wfVars, stages, fetchVars, cfgVars, entriesVars, callVars>>

(***************************************************************************)
(* Data fetcher: DataspaceClient.access_data.                              *)
(* A Content-Disposition value is a sequence of characters in which the    *)
(* substring "filename=" is the single element FN.                         *)
(***************************************************************************)
FN == "filename="
Letters == {"a", "b", "c", "d", "e", "f", "g", "h", "i", "j", "k", "l", "m", "n", "o", "p",
            "q", "r", "s", "t", "u", "v", "w", "x", "y", "z"}
Digits == {"0", "1", "2", "3", "4", "5", "6", "7", "8", "9"}

\* c.isalnum() or c in (".", "_", "-")
IsSafeChar(c) == c \in Letters \cup Digits \cup {".", "_", "-"}

\* content_disposition.split("filename=")[1], or <<>> when len(parts) <= 1
RECURSIVE UpToFN(_)
UpToFN(s) ==
    IF s = <<>> \/ Head(s) = FN THEN <<>> ELSE <<Head(s)>> \o UpToFN(Tail(s))

RECURSIVE AfterFN(_)
AfterFN(s) ==
    IF s = <<>> THEN <<>>
    ELSE IF Head(s) = FN THEN UpToFN(Tail(s)) ELSE AfterFN(Tail(s))

HasFN(s) == \E i \in 1..Len(s) : s[i] = FN

\* s.strip(q)
RECURSIVE lstrip(_, _)
lstrip(s, q) == IF s # <<>> /\ Head(s) = q THEN lstrip(Tail(s), q) ELSE s

RECURSIVE rstrip(_, _)
rstrip(s, q) ==
    IF s # <<>> /\ s[Len(s)] = q THEN rstrip(SubSeq(s, 1, Len(s) - 1), q) ELSE s

strip(s, q) == rstrip(lstrip(s, q), q)

\* a derivation that keeps the directory part of the name
basename_KeepsDirectories(s) == s

\* os.path.basename(s) on a POSIX host: what follows the last "/"
RECURSIVE basename(_)
basename(s) ==
    IF \E i \in 1..Len(s) : s[i] = "/" THEN basename(Tail(s)) ELSE s

default_filename ==
    <<"d", "o", "w", "n", "l", "o", "a", "d", "e", "d", "_", "d", "a", "t", "a", ".", "d", "a", "t">>

\* f"download_{int(time.time())}.dat"
fallback_filename(epoch) ==
    <<"d", "o", "w", "n", "l", "o", "a", "d", "_">> \o epoch \o <<".", "d", "a", "t">>

\* filename, as derived from the Content-Disposition header
DeriveFilename(cd) ==
    IF Truthy(cd) /\ HasFN(cd.c)
    THEN LET filename_from_header == strip(strip(AfterFN(cd.c), "\""), "'")
         IN  IF filename_from_header # <<>> THEN filename_from_header ELSE default_filename
    ELSE default_filename

\* a derivation that uses the name of the header as it is
Sanitize_NoReplacement(filename) == filename

\* the character-by-character replacement over os.path.basename(filename)
Sanitize(filename) ==
    LET base == basename(filename)
    IN  [i \in 1..Len(base) |-> IF IsSafeChar(base[i]) THEN base[i] ELSE "_"]

\* safe_filename
SafeFilename(cd, epoch) ==
    LET safe == Sanitize(DeriveFilename(cd))
    IN  IF safe = <<>> THEN fallback_filename(epoch) ELSE safe

\* os.path.join(settings.ARTIFACT_DOWNLOAD_PATH, safe_filename)
FilePath(name) == [t |-> "path", dir |-> "ARTIFACT_DOWNLOAD_PATH", name |-> name]

\* the credential field chosen from the data address
AuthTokenKey(address) ==
    IF HasKey(address, "authorization") THEN Str("authorization")
    ELSE IF HasKey(address, "authCode") THEN Str("authCode")
    ELSE None

AuthTokenValue(address) ==
    IF AuthTokenKey(address) # None THEN Get(address, AuthTokenKey(address).s) ELSE None

\* "DataAddress is incomplete"
Incomplete(address) ==
    ~Truthy(Get(address, "endpoint")) \/ ~Truthy(AuthTokenValue(address))

\* a fetch that also sends the management key
headers_for_data_access_WithApiKey(address) ==
    (AuthTokenKey(address).s :> AuthTokenValue(address).s) @@ ("X-API-Key" :> api_key)

headers_for_data_access(address) == AuthTokenKey(address).s :> AuthTokenValue(address).s

DataFetch(address) ==
    Request("data_fetch", "GET", <<Get(address, "endpoint").s>>,
            headers_for_data_access(address), None, TRUE)

\* what the data endpoint can answer
Attachment == <<"a", "t", "t", "a", "c", "h", "m", "e", "n", "t", ";", " ">>

ExampleCd ==
    Chars(Attachment \o <<FN, "\"", "a", "/", "b", "*", "c", ".", "t", "a", "r", ".", "g", "z", "\"">>)

FetchCds ==
    { None, ExampleCd,
      Chars(Attachment),
      Chars(Attachment \o <<FN, "\"", "r", ".", "c", "s", "v", "\"">>),
      Chars(Attachment \o <<FN, "\"", "*", "\"">>),
      Chars(Attachment \o <<FN, "\"", "\"">>),
      Chars(Attachment \o <<FN, "d", "/">>),
      Chars(Attachment \o <<FN, ".", ".">>) }

FetchRaws ==
    { RawExc, RawEmpty(404), RawText(403, "denied"), RawJson(500, Dict("message" :> Str("boom"))) }
    \cup { RawDownload(200, cd) : cd \in FetchCds }

Epochs == { <<"1", "7">>, <<"1", "8">> }

\* what becomes of the write: it completes, open() fails, the loop fails with an
\* IOError (f.write, or a RequestException of iter_content), or the loop is left by an
\* exception that is no IOError
IoOutcomes == { "ok", "open_fails", "IOError", "Exception" }

\* the handle, if any, that _send_request(stream=True) hands to access_data
SendHandles(response) == IF response.t = "response" THEN <<"response.open">> ELSE <<>>

\* a with statement that closes the file only when its body completes
WithOpen_LeaksOnException(log, io) ==
    CASE io = "open_fails" -> Append(log, "file.open_failed")
      [] io = "ok" -> log \o <<"file.open", "file.close">>
      [] OTHER -> log \o <<"file.open", "loop." \o io>>

\* with open(file_path, "wb") as f: the file is open once open() succeeds, and __exit__
\* closes it however the body is left
WithOpen(log, io) ==
    CASE io = "open_fails" -> Append(log, "file.open_failed")
      [] io = "ok" -> log \o <<"file.open", "file.close">>
      [] OTHER -> log \o <<"file.open", "loop." \o io, "file.close">>

\* finally: response.close()
FinallyClose(log) == Append(log, "response.close")

\* a try statement that returns the path although the write failed
WriteResult_PathOnFailure(io, file_path) ==
    IF io = "Exception" THEN Raised ELSE file_path

\* the value of the try statement: the path, None from the except clause, or the
\* exception that no clause catches
WriteResult(io, file_path) ==
    CASE io = "ok" -> file_path
      [] io \in {"open_fails", "IOError"} -> None
      [] OTHER -> Raised

\* a name that os.path.join resolves to a directory: open(file_path, "wb") raises
\* IsADirectoryError, an OSError
IsDirectoryName(name) == name \in { <<".">>, <<".", ".">> }

\* what can become of the write to the file called name
OpenOutcomes(name) == IF IsDirectoryName(name) THEN {"open_fails"} ELSE IoOutcomes

\* access_data, from the credential selection to the value returned, when the data
\* endpoint's answer is one of raws
AccessDataFrom(raws) ==
    /\ pc = "fetch_call"
    /\ pc' = "fetch_return"
    /\ stages' = Append(stages, "access_data")
    /\ IF Incomplete(data_address)
       THEN /\ retrieved_data_path' = None
            /\ handle_log' = <<>>
            /\ UNCHANGED <<netVars, content_disposition, safe_filename>>
       ELSE \E raw \in raws, io \in IoOutcomes, epoch \in Epochs :
              LET response == _send_request(raw, TRUE)
              IN  /\ response.t = "response" => io \in OpenOutcomes(SafeFilename(response.cd, epoch))
                  /\ reqs' = Sent(reqs, DataFetch(data_address))
                  /\ last_response_status_code' = StatusAfter(raw, last_response_status_code)
                  /\ IF response.t = "response"
                     THEN /\ content_disposition' = response.cd
                          /\ safe_filename' = Chars(SafeFilename(response.cd, epoch))
                          /\ retrieved_data_path' =
                                WriteResult(io, FilePath(SafeFilename(response.cd, epoch)))
                          /\ handle_log' = FinallyClose(WithOpen(SendHandles(response), io))
                     ELSE /\ retrieved_data_path' = None
                          /\ handle_log' = SendHandles(response)
                          /\ UNCHANGED <<content_disposition, safe_filename>>
    /\ UNCHANGED <<data_address, pollVars, wfVars, cfgVars, entriesVars, callVars>>

\* access_data
AccessData == AccessDataFrom(FetchRaws)

\* a direct caller receives the path
FetchReturn ==
    /\ pc = "fetch_return"
    /\ mode = "fetch"
    /\ pc' = "fetch_done"
    /\ UNCHANGED <<netVars, pollVars, wfVars, stages, fetchVars, cfgVars, entriesVars, callVars>>

\* the filename derivation of access_data applied to one header value
DeriveName ==
    /\ pc = "name_call"
    /\ pc' = "name_done"
    /\ \E epoch \in Epochs : safe_filename' = Chars(SafeFilename(content_disposition, epoch))
    /\ UNCHANGED <<netVars, pollVars, wfVars, stages, data_address, retrieved_data_path,
                   content_disposition, handle_log, cfgVars, entriesVars, callVars>>

(***************************************************************************)
(* Catalog resolver: DataspaceClient.request_catalog.                      *)
(***************************************************************************)
\* a scan that keeps the last dict of the list whose @id is the wanted one
FirstWithId_LastMatch(items, id) ==
    LET hits == {i \in 1..Len(items) : isdict(items[i]) /\ Get(items[i], "@id") = id}
    IN  IF hits = {} THEN None
        ELSE items[CHOOSE i \in hits : \A j \in hits : j <= i]

\* the first dict of the list whose @id is the wanted one, else None
RECURSIVE FirstWithId(_, _)
FirstWithId(items, id) ==
    IF items = <<>> THEN None
    ELSE IF isdict(Head(items)) /\ Get(Head(items), "@id") = id THEN Head(items)
    ELSE FirstWithId(Tail(items), id)

\* query_spec
QuerySpec(asset_id_filter) ==
    Dict(IF Truthy(asset_id_filter)
         THEN ("offset" :> Num(0)) @@ ("limit" :> Str("CATALOG_REQUEST_LIMIT"))
              @@ ("filterExpression" :>
                    List(<<Dict(("operandLeft" :> Str("edc_namespace/id"))
                                @@ ("operator" :> Str("="))
                                @@ ("operandRight" :> asset_id_filter))>>))
         ELSE ("offset" :> Num(0)) @@ ("limit" :> Str("CATALOG_REQUEST_LIMIT")))

\* the catalog request that always asks for one asset
CatalogPayload_AlwaysFiltered(asset_id_filter) ==
    Dict(("@context" :> EmptyDict)
         @@ ("protocol" :> Str("dataspace-protocol-http"))
         @@ ("counterPartyAddress" :> Str("provider_protocol_url"))
         @@ ("counterPartyId" :> Str(provider_bpn))
         @@ ("querySpec" :> QuerySpec(Str("asset-1"))))

CatalogPayload(asset_id_filter) ==
    Dict(("@context" :> EmptyDict)
         @@ ("protocol" :> Str("dataspace-protocol-http"))
         @@ ("counterPartyAddress" :> Str("provider_protocol_url"))
         @@ ("counterPartyId" :> Str(provider_bpn))
         @@ ("querySpec" :> QuerySpec(asset_id_filter)))

CatalogRequest(asset_id_filter) ==
    Request("catalog", "POST", <<"data", "v2", "catalog", "request">>, None,
            CatalogPayload(asset_id_filter), FALSE)

\* a resolver that hands an error result back to its caller
request_catalog_ReportsError(resp, asset_id_filter) ==
    IF ~Truthy(resp) THEN None
    ELSE IF ~isdict(resp) THEN Raised
    ELSE IF Truthy(Get(resp, "error")) THEN resp
    ELSE None

\* a resolver that hands on a single dataset without comparing its @id with the filter
request_catalog_TrustsProvider(resp, asset_id_filter) ==
    IF ~Truthy(resp) THEN None
    ELSE IF ~isdict(resp) THEN Raised
    ELSE IF Truthy(Get(resp, "error")) THEN None
    ELSE LET datasets_from_response ==
                 IF HasKey(resp, "dcat:dataset") THEN Get(resp, "dcat:dataset")
                 ELSE Get(resp, "edc:datasets")
         IN  IF ~Truthy(datasets_from_response) THEN None
             ELSE IF Truthy(asset_id_filter)
             THEN IF isdict(datasets_from_response) THEN datasets_from_response
                  ELSE IF islist(datasets_from_response)
                  THEN FirstWithId(datasets_from_response.items, asset_id_filter)
                  ELSE None
             ELSE IF islist(datasets_from_response) THEN datasets_from_response
             ELSE IF isdict(datasets_from_response) THEN List(<<datasets_from_response>>)
             ELSE None

\* request_catalog, from response_data to the value returned
request_catalog(resp, asset_id_filter) ==
    IF ~Truthy(resp) THEN None
    ELSE IF ~isdict(resp) THEN Raised
    ELSE IF Truthy(Get(resp, "error")) THEN None
    ELSE LET datasets_from_response ==
                 IF HasKey(resp, "dcat:dataset") THEN Get(resp, "dcat:dataset")
                 ELSE Get(resp, "edc:datasets")
         IN  IF ~Truthy(datasets_from_response) THEN None
             ELSE IF Truthy(asset_id_filter)
             THEN IF isdict(datasets_from_response)
                  THEN IF Get(datasets_from_response, "@id") = asset_id_filter
                       THEN datasets_from_response ELSE None
                  ELSE IF islist(datasets_from_response)
                  THEN FirstWithId(datasets_from_response.items, asset_id_filter)
                  ELSE None
             ELSE IF islist(datasets_from_response) THEN datasets_from_response
             ELSE IF isdict(datasets_from_response) THEN List(<<datasets_from_response>>)
             ELSE None

(***************************************************************************)
(* Negotiation initiator: DataspaceClient.initiate_contract.               *)
(***************************************************************************)
\* an augmentation in which fields of the input policy win over the new ones
PolicyToSend_KeepsExisting(asset_id, full_policy_object) ==
    LET augmented == full_policy_object.kv
                     @@ ("odrl:target" :> Dict("@id" :> asset_id))
                     @@ ("odrl:assigner" :> Dict("@id" :> Str(provider_bpn)))
    IN  Dict(IF "@type" \in DOMAIN augmented THEN augmented
             ELSE ("@type" :> Str("odrl:Offer")) @@ augmented)

\* policy_to_send
PolicyToSend(asset_id, full_policy_object) ==
    LET augmented == ("odrl:target" :> Dict("@id" :> asset_id))
                     @@ ("odrl:assigner" :> Dict("@id" :> Str(provider_bpn)))
                     @@ full_policy_object.kv
    IN  Dict(IF "@type" \in DOMAIN augmented THEN augmented
             ELSE ("@type" :> Str("odrl:Offer")) @@ augmented)

\* the augmentation written into the caller's object instead of a copy
PolicyObjects_NoCopy(asset_id, full_policy_object) ==
    [full_policy_object |-> PolicyToSend(asset_id, full_policy_object),
     policy_to_send |-> PolicyToSend(asset_id, full_policy_object)]

\* the two objects after policy_to_send = full_policy_object.copy() and the
\* assignments to policy_to_send
PolicyObjects(asset_id, full_policy_object) ==
    [full_policy_object |-> full_policy_object,
     policy_to_send |-> PolicyToSend(asset_id, full_policy_object)]

ContractContext ==
    Dict(("odrl" :> Str("http://www.w3.org/ns/odrl/2/"))
         @@ ("edc" :> Str("edc_namespace"))
         @@ ("cx-policy" :> Str("https://w3id.org/catenax/policy/"))
         @@ ("tx" :> Str("https://w3id.org/tractusx/v0.0.1/ns/")))

ContractPayload(asset_id, full_policy_object) ==
    Dict(("@context" :> ContractContext)
         @@ ("@type" :> Str("ContractRequest"))
         @@ ("counterPartyAddress" :> Str("provider_protocol_url"))
         @@ ("protocol" :> Str("dataspace-protocol-http"))
         @@ ("policy" :> PolicyObjects(asset_id, full_policy_object).policy_to_send))

ContractRequest(asset_id, full_policy_object) ==
    Request("negotiate", "POST", <<"data", "v2", "edrs">>, None,
            ContractPayload(asset_id, full_policy_object), FALSE)

\* initiate_contract, from response_data to the pair returned
initiate_contract(resp) ==
    IF ~Truthy(resp) THEN NoResult
    ELSE IF ~isdict(resp) THEN Raised
    ELSE IF ~Truthy(Get(resp, "error")) /\ Truthy(Get(resp, "@id"))
    THEN <<Get(resp, "@id"), resp>>
    ELSE NoResult

(***************************************************************************)
(* Data address resolver: DataspaceClient.get_data_address.                *)
(***************************************************************************)
\* a resolver request addressed by the negotiation id
DataAddressRequest_ByNegotiationId(edr_entry_id) ==
    Request("data_address", "GET", <<"data", "v2", "edrs", edr_id.s, "dataaddress">>,
            None, None, FALSE)

\* a resolver request that leaves the entry id out of the URL
DataAddressRequest_WithoutEntryId(edr_entry_id) ==
    Request("data_address", "GET", <<"data", "v2", "edrs", "dataaddress">>,
            None, None, FALSE)

\* GET {base}/data/v2/edrs/{edr_entry_id}/dataaddress
DataAddressRequest(edr_entry_id) ==
    Request("data_address", "GET", <<"data", "v2", "edrs", edr_entry_id.s, "dataaddress">>,
            None, None, FALSE)

\* a resolver that hands on the error dictionary as if it were an address
get_data_address_KeepsError(resp) ==
    IF ~Truthy(resp) THEN None
    ELSE IF ~isdict(resp) THEN Raised
    ELSE resp

\* get_data_address, from response_data to the value returned
get_data_address(resp) ==
    IF ~Truthy(resp) THEN None
    ELSE IF ~isdict(resp) THEN Raised
    ELSE IF ~Truthy(Get(resp, "error")) THEN resp
    ELSE None

(***************************************************************************)
(* Workflow controller: UcController.                                      *)
(***************************************************************************)
\* _extract_asset_and_policy_from_dataset: the policy taken from odrl:hasPolicy
ExtractPolicy(policies) ==
    IF ~Truthy(policies) THEN None
    ELSE IF islist(policies)
    THEN IF isdict(policies.items[1]) THEN policies.items[1] ELSE Raised
    ELSE IF isdict(policies) THEN policies
    ELSE None

\* a selection that gives up on a single dataset whose @id is not the requested one
TargetDataset_RejectsMismatch(dataset_data, requested_asset_id) ==
    IF islist(dataset_data)
    THEN IF Truthy(requested_asset_id)
         THEN FirstWithId(dataset_data.items, requested_asset_id)
         ELSE IF isdict(dataset_data.items[1]) THEN dataset_data.items[1] ELSE Raised
    ELSE IF isdict(dataset_data)
    THEN IF Truthy(requested_asset_id) /\ Get(dataset_data, "@id") # requested_asset_id
         THEN None ELSE dataset_data
    ELSE None

\* _extract_asset_and_policy_from_dataset: the dataset the extraction reads
TargetDataset(dataset_data, requested_asset_id) ==
    IF islist(dataset_data)
    THEN IF Truthy(requested_asset_id)
         THEN FirstWithId(dataset_data.items, requested_asset_id)
         ELSE IF isdict(dataset_data.items[1]) THEN dataset_data.items[1] ELSE Raised
    ELSE IF isdict(dataset_data) THEN dataset_data
    ELSE None

\* _extract_asset_and_policy_from_dataset
_extract_asset_and_policy_from_dataset(dataset_data, requested_asset_id) ==
    IF ~Truthy(dataset_data) THEN NoResult
    ELSE LET target_dataset == TargetDataset(dataset_data, requested_asset_id)
         IN  IF target_dataset = Raised THEN Raised
             ELSE IF ~Truthy(target_dataset) THEN NoResult
             ELSE LET asset_id == Get(target_dataset, "@id")
                      full_policy_object == ExtractPolicy(Get(target_dataset, "odrl:hasPolicy"))
                  IN  IF full_policy_object = Raised THEN Raised
                      ELSE IF ~Truthy(asset_id) \/ ~Truthy(full_policy_object) THEN NoResult
                      ELSE <<asset_id, full_policy_object>>

\* what the provider's catalog endpoint can answer
Policy1 == Dict(("@id" :> Str("p1")) @@ ("@type" :> Str("odrl:Set"))
                @@ ("odrl:target" :> Dict("@id" :> Str("other")))
                @@ ("odrl:assigner" :> Dict("@id" :> Str("BPNL-OTHER"))))
Policy2 == Dict("@id" :> Str("p2"))

Dataset(id, policies) ==
    Dict(IF policies = None THEN "@id" :> id
         ELSE ("@id" :> id) @@ ("odrl:hasPolicy" :> policies))

CatalogRaws ==
    { RawExc,
      RawJson(500, Dict("message" :> Str("boom"))),
      RawJson(200, EmptyDict),
      RawJson(200, List(<<Str("not-a-catalog")>>)),
      RawJson(200, Dict("dcat:dataset" :> Dataset(Str("asset-1"), List(<<Policy1, Policy2>>)))),
      RawJson(200, Dict("dcat:dataset" :> Dataset(Str("asset-2"), List(<<Policy1>>)))),
      RawJson(200, Dict("dcat:dataset" :> Dataset(Str("asset-1"), None))),
      RawJson(200, Dict("dcat:dataset" :>
                          List(<<Dataset(Str("asset-2"), Policy2), Dataset(Str("asset-1"), Policy2)>>))),
      RawJson(200, Dict("edc:datasets" :> List(<<Dataset(Str("asset-1"), List(<<Policy1>>))>>))) }

NegotiationRaws ==
    { RawExc, RawJson(400, Dict("message" :> Str("bad policy"))), RawEmpty(204),
      RawEmpty(409), RawJson(500, EmptyDict), RawText(200, "OK"),
      RawJson(200, EmptyDict), RawJson(200, Dict("@id" :> Str(""))),
      RawJson(200, Dict("@type" :> Str("IdResponse"))),
      RawJson(200, Dict(("@id" :> Str("neg-1")) @@ ("error" :> Str("late")))),
      RawJson(409, Dict("@id" :> Str("neg-0"))),
      RawJson(200, List(<<Dict("@id" :> Str("neg-1"))>>)),
      RawJson(200, Dict("@id" :> Str("neg-1"))) }

AddressRaws ==
    { RawExc, RawJson(404, Dict("message" :> Str("no such edr"))), RawEmpty(204),
      RawText(502, "Bad Gateway"), RawEmpty(404), RawJson(404, EmptyDict),
      RawJson(200, List(<<Str("not-an-address")>>)),
      RawJson(200, Dict(("endpoint" :> Str("https://x/data")) @@ ("authorization" :> Str("tok")))),
      RawJson(200, Dict(("endpoint" :> Str("https://x/data")) @@ ("authCode" :> Str("code")))),
      RawJson(200, Dict(("endpoint" :> Str("https://x/data")) @@ ("authorization" :> Str("tok"))
                        @@ ("authCode" :> Str("code")))),
      RawJson(200, Dict("endpoint" :> Str("https://x/data"))) }

\* run_consumer_workflow returns or raises
Finish(value) ==
    /\ pc' = "wf_done"
    /\ wf_result' = value

\* "No asset and policy object could be determined" or on to step 2
Determined(pair) ==
    /\ asset_id_to_process' = pair[1]
    /\ policy_object_to_process' = pair[2]
    /\ IF Truthy(pair[1]) /\ Truthy(pair[2])
       THEN pc' = "wf_negotiate" /\ UNCHANGED wf_result
       ELSE Finish(None)

\* step 1 with a target asset id: the filtered catalog request and the extraction
WfCatalogFiltered ==
    /\ pc = "wf_start"
    /\ Truthy(target_asset_id)
    /\ \E raw \in CatalogRaws :
          LET resp == _send_request(raw, FALSE)
              catalog_data_for_specific_asset == request_catalog(resp, target_asset_id)
              pair == IF catalog_data_for_specific_asset = Raised THEN Raised
                      ELSE IF Truthy(catalog_data_for_specific_asset)
                      THEN _extract_asset_and_policy_from_dataset(
                               catalog_data_for_specific_asset, target_asset_id)
                      ELSE NoResult
          IN  /\ reqs' = Sent(reqs, CatalogRequest(target_asset_id))
              /\ last_response_status_code' = StatusAfter(raw, last_response_status_code)
              /\ IF pair = Raised
                 THEN Finish(Raised) /\ UNCHANGED <<asset_id_to_process, policy_object_to_process>>
                 ELSE /\ asset_id_to_process' = pair[1]
                      /\ policy_object_to_process' = pair[2]
                      /\ pc' = IF Truthy(pair[1]) /\ Truthy(pair[2])
                               THEN "wf_negotiate" ELSE "wf_prompt"
                      /\ UNCHANGED wf_result
    /\ stages' = Append(stages, "request_catalog")
    /\ UNCHANGED <<target_asset_id, edr_id, all_datasets, pollVars, fetchVars, cfgVars, entriesVars, callVars>>

\* "Specified asset not found. List all available assets from the provider? (y/n)"
WfPrompt ==
    /\ pc = "wf_prompt"
    /\ \E choice \in {"y", "n", "KeyboardInterrupt", "EOFError"} :
          CASE choice = "y" -> pc' = "wf_list" /\ UNCHANGED wf_result
            [] choice = "EOFError" -> Finish(Raised)
            [] OTHER -> Finish(None)
    /\ UNCHANGED <<netVars, pollVars, target_asset_id, asset_id_to_process,
                   policy_object_to_process, edr_id, all_datasets, stages, fetchVars, cfgVars, entriesVars, callVars>>

\* step 1 without a usable target: the unfiltered catalog request
WfCatalogAll ==
    /\ \/ pc = "wf_list"
       \/ pc = "wf_start" /\ ~Truthy(target_asset_id)
    /\ \E raw \in CatalogRaws :
          LET resp == _send_request(raw, FALSE)
              datasets == request_catalog(resp, None)
          IN  /\ reqs' = Sent(reqs, CatalogRequest(None))
              /\ last_response_status_code' = StatusAfter(raw, last_response_status_code)
              /\ IF datasets = Raised THEN Finish(Raised) /\ UNCHANGED all_datasets
                 ELSE IF Truthy(datasets)
                 THEN /\ pc' = "wf_select"
                      /\ all_datasets' = datasets
                      /\ UNCHANGED wf_result
                 ELSE Finish(None) /\ UNCHANGED all_datasets
    /\ stages' = Append(stages, "request_catalog")
    /\ UNCHANGED <<target_asset_id, asset_id_to_process, policy_object_to_process, edr_id,
                   pollVars, fetchVars, cfgVars, entriesVars, callVars>>

\* _list_and_select_asset_from_catalog: the listing, then the answer to
\* "Select an asset by number: " (an invalid answer asks again)
WfSelect ==
    /\ pc = "wf_select"
    /\ all_datasets' = None
    /\ IF \E i \in 1..Len(all_datasets.items) : ~isdict(all_datasets.items[i])
       THEN Finish(Raised) /\ UNCHANGED <<asset_id_to_process, policy_object_to_process>>
       ELSE \/ \E choice \in 1..Len(all_datasets.items) :
                 LET selected_dataset_item == all_datasets.items[choice]
                     pair == _extract_asset_and_policy_from_dataset(
                                 selected_dataset_item, Get(selected_dataset_item, "@id"))
                 IN  IF pair = Raised
                     THEN Finish(Raised)
                          /\ UNCHANGED <<asset_id_to_process, policy_object_to_process>>
                     ELSE Determined(pair)
            \/ Determined(NoResult)         \* KeyboardInterrupt
            \/ Finish(Raised) /\ UNCHANGED <<asset_id_to_process, policy_object_to_process>>
                                            \* EOFError
    /\ UNCHANGED <<netVars, pollVars, target_asset_id, edr_id, stages, fetchVars, cfgVars, entriesVars, callVars>>

\* step 2: initiate_contract; on success step 3 calls get_cached_edrs
WfNegotiate ==
    /\ pc = "wf_negotiate"
    /\ \E raw \in NegotiationRaws :
          LET resp == _send_request(raw, FALSE)
              pair == initiate_contract(resp)
          IN  /\ reqs' = Sent(reqs, ContractRequest(asset_id_to_process,
                                                     policy_object_to_process))
              /\ last_response_status_code' = StatusAfter(raw, last_response_status_code)
              /\ IF pair = Raised
                 THEN Finish(Raised) /\ UNCHANGED <<edr_id, asset_id_for_filter>>
                 ELSE /\ edr_id' = pair[1]
                      /\ IF Truthy(pair[1])
                         THEN /\ pc' = "poll_call"
                              /\ asset_id_for_filter' = asset_id_to_process
                              /\ UNCHANGED wf_result
                         ELSE Finish(None) /\ UNCHANGED asset_id_for_filter
    /\ stages' = Append(stages, "initiate_contract")
    /\ policy_object_to_process' =
          PolicyObjects(asset_id_to_process, policy_object_to_process).full_policy_object
    /\ UNCHANGED <<target_asset_id, asset_id_to_process,
                   all_datasets, attempt, clock, response_data, poll_result, polled,
                   fetchVars, cfgVars, entriesVars, callVars>>

\* the poller returns to the workflow; step 4 calls get_data_address
WfAddress ==
    /\ pc = "poll_return"
    /\ mode = "workflow"
    /\ attempt' = 0
    /\ clock' = 0
    /\ response_data' = None
    /\ polled' = <<>>
    /\ LET transfer_process_id == poll_result[1]
           cached_edr_entry == poll_result[2]
       IN  IF ~Truthy(transfer_process_id) \/ ~Truthy(cached_edr_entry)
           THEN Finish(None) /\ UNCHANGED <<netVars, stages, data_address>>
           ELSE LET cached_edr_id == Get(cached_edr_entry, "@id")
                IN  IF ~Truthy(cached_edr_id)
                    THEN Finish(None) /\ UNCHANGED <<netVars, stages, data_address>>
                    ELSE \E raw \in AddressRaws :
                           LET resp == _send_request(raw, FALSE)
                               address == get_data_address(resp)
                           IN  /\ reqs' = Sent(reqs, DataAddressRequest(cached_edr_id))
                               /\ last_response_status_code' =
                                     StatusAfter(raw, last_response_status_code)
                               /\ stages' = Append(stages, "get_data_address")
                               /\ IF address = Raised
                                  THEN Finish(Raised) /\ UNCHANGED data_address
                                  ELSE IF Truthy(address)
                                  THEN /\ pc' = "fetch_call"
                                       /\ data_address' = address
                                       /\ UNCHANGED wf_result
                                  ELSE Finish(None) /\ UNCHANGED data_address
    /\ UNCHANGED <<target_asset_id, asset_id_to_process, policy_object_to_process, edr_id,
                   all_datasets, asset_id_for_filter, poll_result,
                   retrieved_data_path, content_disposition, safe_filename, handle_log,
                   cfgVars, entriesVars, callVars>>

\* step 5 has returned: the workflow returns the path, or None
WfFinish ==
    /\ pc = "fetch_return"
    /\ mode = "workflow"
    /\ Finish(IF retrieved_data_path = Raised THEN Raised
              ELSE IF Truthy(retrieved_data_path) THEN retrieved_data_path ELSE None)
    /\ UNCHANGED <<netVars, pollVars, target_asset_id, asset_id_to_process,
                   policy_object_to_process, edr_id, all_datasets, stages, fetchVars, cfgVars, entriesVars, callVars>>

Filters == {None, Str(""), Str("asset-1"), Str("asset-2")}

InitPoll ==
    /\ pc = "poll_call"
    /\ reqs = <<>>
    /\ last_response_status_code = None
    /\ edr_polling_timeout_seconds \in -1..MaxTimeout
    /\ edr_cache_before = {}
    /\ provider_settings = AllConfigured
    /\ res = None
    /\ success = TRUE
    /\ answers = <<>>
    /\ asset_id_for_filter \in Filters
    /\ attempt = 0
    /\ clock = 0
    /\ response_data = None
    /\ poll_result = NoResult
    /\ polled = <<>>
    /\ mode = "poll"
    /\ target_asset_id = None
    /\ asset_id_to_process = None
    /\ policy_object_to_process = None
    /\ edr_id = None
    /\ all_datasets = None
    /\ scripted = None
    /\ returned = Running
    /\ wf_result = None
    /\ stages = <<>>
    /\ data_address = None
    /\ retrieved_data_path = None
    /\ handle_log = <<>>
    /\ content_disposition = None
    /\ safe_filename = None

NextPoll == PollBegin \/ PollAttempt \/ PollSleep \/ PollReturn

SpecPoll == InitPoll /\ [][NextPoll]_vars

\* every loop pass, sleep and return completes: each query is answered
SpecPollFair == SpecPoll /\ WF_vars(NextPoll)

Absent == [t |-> "absent"]

Address(endpoint, authorization, authCode) ==
    Dict([k \in ((IF endpoint = Absent THEN {} ELSE {"endpoint"})
                 \cup (IF authorization = Absent THEN {} ELSE {"authorization"})
                 \cup (IF authCode = Absent THEN {} ELSE {"authCode"}))
          |-> CASE k = "endpoint" -> endpoint
                [] k = "authorization" -> authorization
                [] OTHER -> authCode])

DataAddresses ==
    { Address(e, a, c) : e \in {Absent, Str(""), Str("https://x/data")},
                         a \in {Absent, None, Str(""), Str("tok")},
                         c \in {Absent, Str(""), Str("code")} }

\* access_data called on its own with any data address
InitFetch ==
    /\ pc = "fetch_call"
    /\ mode = "fetch"
    /\ reqs = <<>>
    /\ last_response_status_code = None
    /\ asset_id_for_filter = None
    /\ attempt = 0
    /\ clock = 0
    /\ response_data = None
    /\ poll_result = NoResult
    /\ polled = <<>>
    /\ target_asset_id = None
    /\ asset_id_to_process = None
    /\ policy_object_to_process = None
    /\ edr_id = None
    /\ all_datasets = None
    /\ scripted = None
    /\ returned = Running
    /\ wf_result = None
    /\ stages = <<>>
    /\ data_address \in DataAddresses
    /\ retrieved_data_path = None
    /\ handle_log = <<>>
    /\ content_disposition = None
    /\ safe_filename = None
    /\ edr_polling_timeout_seconds = 0
    /\ edr_cache_before = {}
    /\ provider_settings = AllConfigured
    /\ res = None
    /\ success = TRUE
    /\ answers = <<>>

NextFetch == AccessData \/ FetchReturn

SpecFetch == InitFetch /\ [][NextFetch]_vars

\* the filename derivation applied to any header value
CdAlphabet == {"a", "/", ".", "*", "\"", "'", FN}

CdInputs ==
    {None, ExampleCd} \cup { Chars(s) : s \in UNION { [1..n -> CdAlphabet] : n \in 0..MaxCdLen } }

InitFilename ==
    /\ pc = "name_call"
    /\ mode = "filename"
    /\ reqs = <<>>
    /\ last_response_status_code = None
    /\ asset_id_for_filter = None
    /\ attempt = 0
    /\ clock = 0
    /\ response_data = None
    /\ poll_result = NoResult
    /\ polled = <<>>
    /\ target_asset_id = None
    /\ asset_id_to_process = None
    /\ policy_object_to_process = None
    /\ edr_id = None
    /\ all_datasets = None
    /\ scripted = None
    /\ returned = Running
    /\ wf_result = None
    /\ stages = <<>>
    /\ data_address = None
    /\ retrieved_data_path = None
    /\ handle_log = <<>>
    /\ content_disposition \in CdInputs
    /\ safe_filename = None
    /\ edr_polling_timeout_seconds = 0
    /\ edr_cache_before = {}
    /\ provider_settings = AllConfigured
    /\ res = None
    /\ success = TRUE
    /\ answers = <<>>

NextFilename == DeriveName

SpecFilename == InitFilename /\ [][NextFilename]_vars

\* request_catalog called on its own: every shape of catalog answer, any filter
DatasetItems ==
    { Dataset(Str("asset-1"), List(<<Policy1>>)), Dataset(Str("asset-1"), Policy2),
      Dataset(Str("asset-2"), Policy2), Str("not-a-dataset") }

DatasetLists == UNION { [1..n -> DatasetItems] : n \in 0..MaxDatasets }

\* a dataset collection, or what a provider may send in its place
Collections ==
    { List(l) : l \in DatasetLists }
    \cup { Dataset(Str("asset-1"), List(<<Policy1>>)), Dataset(Str("asset-2"), Policy2),
           EmptyDict, None, Str("not-a-collection"), Num(7) }

EmptyCollections == { None, List(<<>>) }

CatalogBodies ==
    { Dict("dcat:dataset" :> d) : d \in Collections }
    \cup { Dict("edc:datasets" :> d) : d \in Collections }
    \cup { Dict(("dcat:dataset" :> d) @@ ("edc:datasets" :> e)) :
              d \in Collections, e \in EmptyCollections }
    \cup { Dict(("dcat:dataset" :> e) @@ ("edc:datasets" :> d)) :
              d \in Collections, e \in EmptyCollections }
    \cup { EmptyDict, Dict("@type" :> Str("dcat:Catalog")),
           List(<<Dataset(Str("asset-1"), Policy2)>>), List(<<>>), Str("catalog"), None }

CatalogOutcomes ==
    { RawExc, RawEmpty(204), RawText(200, "<html>"), RawEmpty(404), RawText(502, "Bad Gateway"),
      RawJson(500, Dict("message" :> Str("boom"))), RawJson(400, EmptyDict) }
    \cup { RawJson(200, b) : b \in CatalogBodies }

InitCatalog ==
    /\ pc = "catalog_call"
    /\ mode = "catalog"
    /\ reqs = <<>>
    /\ last_response_status_code = None
    /\ asset_id_for_filter = None
    /\ attempt = 0
    /\ clock = 0
    /\ response_data = None
    /\ poll_result = NoResult
    /\ polled = <<>>
    /\ target_asset_id \in {None, Str(""), Str("asset-1"), Str("asset-2")}
    /\ asset_id_to_process = None
    /\ policy_object_to_process = None
    /\ edr_id = None
    /\ all_datasets = None
    /\ wf_result = None
    /\ stages = <<>>
    /\ data_address = None
    /\ retrieved_data_path = None
    /\ handle_log = <<>>
    /\ content_disposition = None
    /\ safe_filename = None
    /\ edr_polling_timeout_seconds = 0
    /\ edr_cache_before = {}
    /\ provider_settings = AllConfigured
    /\ res = None
    /\ success = TRUE
    /\ answers = <<>>
    /\ scripted \in CatalogOutcomes
    /\ returned = Running

\* request_catalog(asset_id_filter = target_asset_id)
RequestCatalog ==
    /\ pc = "catalog_call"
    /\ pc' = "catalog_return"
    /\ reqs' = Sent(reqs, CatalogRequest(target_asset_id))
    /\ last_response_status_code' = StatusAfter(scripted, last_response_status_code)
    /\ stages' = Append(stages, "request_catalog")
    /\ returned' = request_catalog(_send_request(scripted, FALSE), target_asset_id)
    /\ UNCHANGED <<pollVars, wfVars, fetchVars, cfgVars, entriesVars, scripted>>

NextCatalog == RequestCatalog

SpecCatalog == InitCatalog /\ [][NextCatalog]_vars

\* initiate_contract called on its own: any asset id, any policy object
PolicyFieldValue(k) ==
    CASE k = "@id" -> Str("p1")
      [] k = "@type" -> Str("odrl:Set")
      [] k = "odrl:target" -> Dict("@id" :> Str("other"))
      [] k = "odrl:assigner" -> Dict("@id" :> Str("BPNL-OTHER"))
      [] OTHER -> List(<<Dict("odrl:action" :> Str("use"))>>)

PolicyObjectsIn ==
    { Dict([k \in ks |-> PolicyFieldValue(k)]) :
         ks \in SUBSET {"@id", "@type", "odrl:target", "odrl:assigner", "odrl:permission"} }

InitNegotiate ==
    /\ pc = "negotiate_call"
    /\ mode = "negotiate"
    /\ reqs = <<>>
    /\ last_response_status_code = None
    /\ asset_id_for_filter = None
    /\ attempt = 0
    /\ clock = 0
    /\ response_data = None
    /\ poll_result = NoResult
    /\ polled = <<>>
    /\ target_asset_id = None
    /\ asset_id_to_process \in {Str("asset-1"), Str("other")}
    /\ policy_object_to_process \in PolicyObjectsIn
    /\ edr_id = None
    /\ all_datasets = None
    /\ wf_result = None
    /\ stages = <<>>
    /\ data_address = None
    /\ retrieved_data_path = None
    /\ handle_log = <<>>
    /\ content_disposition = None
    /\ safe_filename = None
    /\ edr_polling_timeout_seconds = 0
    /\ edr_cache_before = {}
    /\ provider_settings = AllConfigured
    /\ res = None
    /\ success = TRUE
    /\ answers = <<>>
    /\ scripted \in NegotiationRaws
    /\ returned = Running

\* initiate_contract(asset_id_to_process, policy_object_to_process)
InitiateContract ==
    /\ pc = "negotiate_call"
    /\ pc' = "negotiate_return"
    /\ reqs' = Sent(reqs, ContractRequest(asset_id_to_process, policy_object_to_process))
    /\ last_response_status_code' = StatusAfter(scripted, last_response_status_code)
    /\ stages' = Append(stages, "initiate_contract")
    /\ policy_object_to_process' =
          PolicyObjects(asset_id_to_process, policy_object_to_process).full_policy_object
    /\ returned' = initiate_contract(_send_request(scripted, FALSE))
    /\ UNCHANGED <<pollVars, target_asset_id, asset_id_to_process, edr_id, all_datasets,
                   wf_result, fetchVars, cfgVars, entriesVars, scripted>>

NextNegotiate == InitiateContract

SpecNegotiate == InitNegotiate /\ [][NextNegotiate]_vars

\* _send_request called on its own: any status, any body, streamed or not
SendStatuses == {199, 200, 204, 299, 300, 404, 500}

SendJsonBodies ==
    { EmptyDict, Dict("@id" :> Str("x")), Dict("error" :> Str("in-body")), List(<<>>),
      List(<<Str("x")>>), Str("x"), Num(0), None }

SendOutcomes ==
    { RawExc }
    \cup { RawEmpty(st) : st \in SendStatuses }
    \cup { RawText(st, "<html>") : st \in SendStatuses }
    \cup { RawJson(st, b) : st \in SendStatuses, b \in SendJsonBodies }
    \cup { RawDownload(st, ExampleCd) : st \in SendStatuses }

InitSend ==
    /\ pc = "send_call"
    /\ mode = "send"
    /\ reqs = <<>>
    /\ last_response_status_code \in {None, Num(200)}
    /\ asset_id_for_filter = None
    /\ attempt = 0
    /\ clock = 0
    /\ response_data = None
    /\ poll_result = NoResult
    /\ polled = <<>>
    /\ target_asset_id = None
    /\ asset_id_to_process = None
    /\ policy_object_to_process = None
    /\ edr_id = None
    /\ all_datasets = None
    /\ wf_result = None
    /\ stages = <<>>
    /\ data_address = None
    /\ retrieved_data_path = None
    /\ handle_log = <<>>
    /\ content_disposition = None
    /\ safe_filename = None
    /\ edr_polling_timeout_seconds = 0
    /\ edr_cache_before = {}
    /\ provider_settings = AllConfigured
    /\ res = None
    /\ success = TRUE
    /\ answers = <<>>
    /\ scripted \in SendOutcomes
    /\ returned = Running

\* _send_request(method, url, stream = stream)
SendRequest ==
    /\ pc = "send_call"
    /\ pc' = "send_return"
    /\ \E stream \in BOOLEAN :
          /\ reqs' = Sent(reqs, Request("send", "GET", <<"any">>, None, None, stream))
          /\ returned' = _send_request(scripted, stream)
    /\ last_response_status_code' = StatusAfter(scripted, last_response_status_code)
    /\ UNCHANGED <<pollVars, wfVars, stages, fetchVars, cfgVars, entriesVars, scripted>>

NextSend == SendRequest

SpecSend == InitSend /\ [][NextSend]_vars

(***************************************************************************)
(* access_data called with a complete data address, for any                *)
(* Content-Disposition value the data endpoint may send.                   *)
(***************************************************************************)
CompleteAddresses == { Address(Str("https://x/data"), Str("tok"), Absent) }

DownloadRaws == { RawDownload(200, cd) : cd \in CdInputs }

InitDownload ==
    /\ pc = "fetch_call"
    /\ mode = "fetch"
    /\ reqs = <<>>
    /\ last_response_status_code = None
    /\ asset_id_for_filter = None
    /\ attempt = 0
    /\ clock = 0
    /\ response_data = None
    /\ poll_result = NoResult
    /\ polled = <<>>
    /\ target_asset_id = None
    /\ asset_id_to_process = None
    /\ policy_object_to_process = None
    /\ edr_id = None
    /\ all_datasets = None
    /\ scripted = None
    /\ returned = Running
    /\ wf_result = None
    /\ stages = <<>>
    /\ data_address \in CompleteAddresses
    /\ retrieved_data_path = None
    /\ handle_log = <<>>
    /\ content_disposition = None
    /\ safe_filename = None
    /\ edr_polling_timeout_seconds = 0
    /\ edr_cache_before = {}
    /\ provider_settings = AllConfigured
    /\ res = None
    /\ success = TRUE
    /\ answers = <<>>

Download == AccessDataFrom(DownloadRaws)

NextDownload == Download

SpecDownload == InitDownload /\ [][NextDownload]_vars

(***************************************************************************)
(* _extract_asset_and_policy_from_dataset called on its own: dataset_data  *)
(* is held in all_datasets, requested_asset_id in target_asset_id.         *)
(***************************************************************************)
\* values of odrl:hasPolicy (None: the key is absent)
ExtractPolicies ==
    { None, List(<<>>), List(<<Policy1>>), List(<<Policy1, Policy2>>),
      List(<<Str("policy-1")>>), List(<<EmptyDict, Policy1>>),
      Policy2, EmptyDict, Str("policy-1"), Str(""), Num(7), Num(0) }

ExtractDatasets ==
    { Dataset(i, p) : i \in {Str("asset-1"), Str("asset-2"), Str("")}, p \in ExtractPolicies }
    \cup { Dict("odrl:hasPolicy" :> List(<<Policy1>>)), EmptyDict }

ExtractListItems ==
    { Dataset(Str("asset-1"), List(<<Policy1>>)), Dataset(Str("asset-2"), Policy2),
      Dataset(Str("asset-1"), List(<<Str("policy-1")>>)), Str("not-a-dataset"), EmptyDict }

ExtractLists == UNION { [1..n -> ExtractListItems] : n \in 0..MaxDatasets }

ExtractInputs ==
    ExtractDatasets \cup { List(l) : l \in ExtractLists } \cup { None, Str("not-a-dataset"), Num(7) }

RequestedIds == { None, Str(""), Str("asset-1"), Str("asset-2") }

InitExtract ==
    /\ pc = "extract_call"
    /\ mode = "extract"
    /\ reqs = <<>>
    /\ last_response_status_code = None
    /\ asset_id_for_filter = None
    /\ attempt = 0
    /\ clock = 0
    /\ response_data = None
    /\ poll_result = NoResult
    /\ polled = <<>>
    /\ target_asset_id \in RequestedIds
    /\ asset_id_to_process = None
    /\ policy_object_to_process = None
    /\ edr_id = None
    /\ all_datasets \in ExtractInputs
    /\ scripted = None
    /\ returned = Running
    /\ wf_result = None
    /\ stages = <<>>
    /\ data_address = None
    /\ retrieved_data_path = None
    /\ handle_log = <<>>
    /\ content_disposition = None
    /\ safe_filename = None
    /\ edr_polling_timeout_seconds = 0
    /\ edr_cache_before = {}
    /\ provider_settings = AllConfigured
    /\ res = None
    /\ success = TRUE
    /\ answers = <<>>

ExtractAssetAndPolicy ==
    /\ pc = "extract_call"
    /\ pc' = "extract_return"
    /\ returned' = _extract_asset_and_policy_from_dataset(all_datasets, target_asset_id)
    /\ UNCHANGED <<netVars, pollVars, wfVars, stages, fetchVars, cfgVars, entriesVars, scripted>>

NextExtract == ExtractAssetAndPolicy

SpecExtract == InitExtract /\ [][NextExtract]_vars

(***************************************************************************)
(* Provider: UcController._create_dataspace_entries over EdcManager.       *)
(* asset_id is held in asset_id_to_process; the generated ids ap-, up-,    *)
(* cd- plus uuid are the fixed names ap-1, up-1, cd-1.                     *)
(***************************************************************************)
\* EdcManager._send_request with success_status_codes = [200, 409]: the values the
\* call can return.  req.json() on a body that is not JSON raises an exception that is
\* a RequestException (caught: None) in recent versions of requests and a plain
\* ValueError (not caught) in older ones.
EdcManager_send_request(raw, payload_id) ==
    IF raw.exc THEN {None}
    ELSE IF raw.status \notin {200, 409} THEN {None}
    ELSE IF raw.status = 409
    THEN {Dict(("status" :> Str("conflict")) @@ ("id" :> Str(payload_id)))}
    ELSE IF raw.content = "empty"
    THEN {Dict(("status" :> Str("success_no_content")) @@ ("status_code" :> Num(raw.status)))}
    ELSE IF raw.content = "json" THEN {raw.json}
    ELSE {None, Raised}

\* self.last_response_status_code once the call is over
EdcStatusAfter(raw, response) ==
    IF raw.exc \/ (raw.content = "text" /\ raw.status = 200 /\ response = None) THEN None
    ELSE Num(raw.status)

\* response.get(...) raises: the response is neither falsy nor an object
AcceptRaises(response) == Truthy(response) /\ ~isdict(response)

\* a test that takes any answer for an acceptance
Accepted_AnyAnswer(response) == TRUE

\* response and (response.get("@id") or response.get("status") == "conflict")
Accepted(response) ==
    /\ Truthy(response)
    /\ isdict(response)
    /\ (Truthy(Get(response, "@id")) \/ Get(response, "status") = Str("conflict"))

EdcRequest(op, url, payload_id) ==
    Request(op, "POST", url,
            ("X-API-Key" :> api_key) @@ ("Content-Type" :> "application/json"),
            Dict("@id" :> Str(payload_id)), FALSE)

\* what the connector's management API can answer
EdcRaws ==
    { RawExc, RawJson(200, Dict("@id" :> Str("created"))), RawJson(200, EmptyDict),
      RawEmpty(200), RawEmpty(409), RawJson(201, Dict("@id" :> Str("created"))),
      RawJson(500, Dict("message" :> Str("boom"))), RawText(200, "OK"),
      RawJson(200, List(<<Str("created")>>)) }

\* return res if success else {**res, "error": "POLICY_OR_CD_CREATION_FAILED"}
EntriesResult(r, ok) ==
    IF ok THEN r ELSE Dict(("error" :> Str("POLICY_OR_CD_CREATION_FAILED")) @@ r.kv)

\* one create call of EdcManager: the request goes out and the answer is recorded
EdcCall(op, url, payload_id, raw, response) ==
    /\ reqs' = Sent(reqs, EdcRequest(op, url, payload_id))
    /\ last_response_status_code' = EdcStatusAfter(raw, response)
    /\ answers' = Append(answers, response)

EntriesReturn(value) ==
    /\ pc' = "entries_return"
    /\ returned' = value

\* _create_dataspace_entries up to the test of the asset response
CreateAsset ==
    /\ pc = "entries_call"
    /\ res' = Dict("assetId" :> asset_id_to_process)
    /\ success' = TRUE
    /\ IF ~provider_settings.bucket
       THEN EntriesReturn(None) /\ UNCHANGED <<netVars, answers>>
       ELSE IF ~provider_settings.bpn
       THEN /\ EntriesReturn(Dict(("assetId" :> asset_id_to_process)
                                  @@ ("error" :> Str("CONSUMER_BPN_NOT_CONFIGURED"))))
            /\ UNCHANGED <<netVars, answers>>
       ELSE IF ~provider_settings.s3
       THEN EntriesReturn(None) /\ UNCHANGED <<netVars, answers>>
       ELSE \E raw \in EdcRaws :
              \E asset_response \in EdcManager_send_request(raw, asset_id_to_process.s) :
                 /\ EdcCall("create_asset", <<"data", "v3", "assets">>,
                            asset_id_to_process.s, raw, asset_response)
                 /\ IF AcceptRaises(asset_response) THEN EntriesReturn(Raised)
                    ELSE IF ~Accepted(asset_response) THEN EntriesReturn(None)
                    ELSE pc' = "entries_access" /\ UNCHANGED returned
    /\ UNCHANGED <<pollVars, wfVars, stages, fetchVars, cfgVars, provider_settings, scripted>>

\* the access policy: createAccessPolicy and the test of its response
CreateAccessPolicy ==
    /\ pc = "entries_access"
    /\ \E raw \in EdcRaws :
          \E policy_response \in EdcManager_send_request(raw, "ap-1") :
             /\ EdcCall("create_access_policy", <<"data", "v2", "policydefinitions">>,
                        "ap-1", raw, policy_response)
             /\ IF AcceptRaises(policy_response)
                THEN EntriesReturn(Raised) /\ UNCHANGED <<res, success>>
                ELSE /\ pc' = "entries_usage"
                     /\ IF Accepted(policy_response)
                        THEN /\ res' = Dict(("accessPolicyId" :> Str("ap-1")) @@ res.kv)
                             /\ UNCHANGED success
                        ELSE success' = FALSE /\ UNCHANGED res
                     /\ UNCHANGED returned
    /\ UNCHANGED <<pollVars, wfVars, stages, fetchVars, cfgVars, provider_settings, scripted>>

\* the usage policy: createUsagePolicy, the test of its response, and the return
\* that skips the contract definition
CreateUsagePolicy ==
    /\ pc = "entries_usage"
    /\ \E raw \in EdcRaws :
          \E policy_response \in EdcManager_send_request(raw, "up-1") :
             /\ EdcCall("create_usage_policy", <<"data", "v2", "policydefinitions">>,
                        "up-1", raw, policy_response)
             /\ IF AcceptRaises(policy_response)
                THEN EntriesReturn(Raised) /\ UNCHANGED <<res, success>>
                ELSE LET res1 == IF Accepted(policy_response)
                                 THEN Dict(("usagePolicyId" :> Str("up-1")) @@ res.kv)
                                 ELSE res
                     IN  /\ res' = res1
                         /\ IF HasKey(res1, "accessPolicyId") /\ HasKey(res1, "usagePolicyId")
                            THEN /\ pc' = "entries_contract"
                                 /\ UNCHANGED <<success, returned>>
                            ELSE /\ success' = FALSE
                                 /\ EntriesReturn(EntriesResult(res1, FALSE))
    /\ UNCHANGED <<pollVars, wfVars, stages, fetchVars, cfgVars, provider_settings, scripted>>

\* the contract definition: createContractDefinition, the test, and the return
CreateContractDefinition ==
    /\ pc = "entries_contract"
    /\ \E raw \in EdcRaws :
          \E cd_response \in EdcManager_send_request(raw, "cd-1") :
             /\ EdcCall("create_contract_definition", <<"data", "v2", "contractdefinitions">>,
                        "cd-1", raw, cd_response)
             /\ IF AcceptRaises(cd_response)
                THEN EntriesReturn(Raised) /\ UNCHANGED <<res, success>>
                ELSE IF Accepted(cd_response)
                THEN /\ res' = Dict(("contractDefinitionId" :> Str("cd-1")) @@ res.kv)
                     /\ EntriesReturn(EntriesResult(res', success))
                     /\ UNCHANGED success
                ELSE /\ success' = FALSE
                     /\ EntriesReturn(EntriesResult(res, FALSE))
                     /\ UNCHANGED res
    /\ UNCHANGED <<pollVars, wfVars, stages, fetchVars, cfgVars, provider_settings, scripted>>

InitEntries ==
    /\ pc = "entries_call"
    /\ mode = "entries"
    /\ reqs = <<>>
    /\ last_response_status_code = None
    /\ asset_id_for_filter = None
    /\ attempt = 0
    /\ clock = 0
    /\ response_data = None
    /\ poll_result = NoResult
    /\ polled = <<>>
    /\ target_asset_id = None
    /\ asset_id_to_process = Str("asset-1")
    /\ policy_object_to_process = None
    /\ edr_id = None
    /\ all_datasets = None
    /\ scripted = None
    /\ returned = Running
    /\ wf_result = None
    /\ stages = <<>>
    /\ data_address = None
    /\ retrieved_data_path = None
    /\ handle_log = <<>>
    /\ content_disposition = None
    /\ safe_filename = None
    /\ edr_polling_timeout_seconds = 0
    /\ edr_cache_before = {}
    /\ provider_settings \in [bucket : BOOLEAN, bpn : BOOLEAN, s3 : BOOLEAN]
    /\ res = None
    /\ success = TRUE
    /\ answers = <<>>

NextEntries == CreateAsset \/ CreateAccessPolicy \/ CreateUsagePolicy \/ CreateContractDefinition

SpecEntries == InitEntries /\ [][NextEntries]_vars

\* run_consumer_workflow, called with or without a target asset id
Init ==
    /\ pc = "wf_start"
    /\ mode = "workflow"
    /\ reqs = <<>>
    /\ last_response_status_code = None
    /\ asset_id_for_filter = None
    /\ attempt = 0
    /\ clock = 0
    /\ response_data = None
    /\ poll_result = NoResult
    /\ polled = <<>>
    /\ target_asset_id \in {None, Str("asset-1")}
    /\ asset_id_to_process = None
    /\ policy_object_to_process = None
    /\ edr_id = None
    /\ all_datasets = None
    /\ scripted = None
    /\ returned = Running
    /\ wf_result = Running
    /\ stages = <<>>
    /\ data_address = None
    /\ retrieved_data_path = None
    /\ handle_log = <<>>
    /\ content_disposition = None
    /\ safe_filename = None
    /\ edr_polling_timeout_seconds \in 0..MaxTimeout
    /\ edr_cache_before = {}
    /\ provider_settings = AllConfigured
    /\ res = None
    /\ success = TRUE
    /\ answers = <<>>

\* the finalized entries an earlier run for the same provider has left in the cache
EarlierEntries ==
    { Entry(Str("asset-1"), Str("tp-1"), Str("edr-1")),
      Entry(Str("asset-2"), Str("tp-2"), Str("edr-2")) }

\* run_consumer_workflow, called when earlier runs may have left entries in the cache
InitRerun ==
    /\ pc = "wf_start"
    /\ mode = "workflow"
    /\ reqs = <<>>
    /\ last_response_status_code = None
    /\ asset_id_for_filter = None
    /\ attempt = 0
    /\ clock = 0
    /\ response_data = None
    /\ poll_result = NoResult
    /\ polled = <<>>
    /\ target_asset_id \in {None, Str("asset-1")}
    /\ asset_id_to_process = None
    /\ policy_object_to_process = None
    /\ edr_id = None
    /\ all_datasets = None
    /\ scripted = None
    /\ returned = Running
    /\ wf_result = Running
    /\ stages = <<>>
    /\ data_address = None
    /\ retrieved_data_path = None
    /\ handle_log = <<>>
    /\ content_disposition = None
    /\ safe_filename = None
    /\ edr_polling_timeout_seconds \in 0..MaxTimeout
    /\ edr_cache_before \in SUBSET EarlierEntries
    /\ provider_settings = AllConfigured
    /\ res = None
    /\ success = TRUE
    /\ answers = <<>>

Next ==
    \/ WfCatalogFiltered \/ WfPrompt \/ WfCatalogAll \/ WfSelect \/ WfNegotiate
    \/ PollBegin \/ PollAttempt \/ PollSleep
    \/ WfAddress \/ AccessData \/ WfFinish

Spec == Init /\ [][Next]_vars

SpecRerun == InitRerun /\ [][Next]_vars

(***************************************************************************)
(* Properties.                                                             *)
(***************************************************************************)
Queries == Len(SelectSeq(reqs, LAMBDA r : r.op = "edr_query"))

PollReturned == pc = "poll_return"
PollFound == PollReturned /\ poll_result # NoResult
PollTimedOut == PollReturned /\ poll_result = NoResult

\* time spent beyond the nominal sleeps when the poller returns
PollOverhead == clock - (attempt - 1) * polling_interval

\* the N-th answer is the first one with a finalized match, and N queries were issued
FoundAtFirstMatch ==
    /\ Len(polled) >= 1
    /\ polled[Len(polled)]
    /\ \A k \in 1..(Len(polled) - 1) : ~polled[k]
    /\ Queries = Len(polled)
    /\ attempt = Len(polled)
    /\ poll_result[1] = Get(poll_result[2], "transferProcessId")
    /\ \E i \in 1..Len(response_data.items) : response_data.items[i] = poll_result[2]

\* C1 as stated: on a script whose first finalized match is answer N, with
\* N x interval < timeout, the poller returns that match after exactly N queries.
\* A run that ended empty-handed after q unmatched answers is a run on every script
\* whose first match is answer q+1, so q+1 must not satisfy the premise.
C1_PollerDeterminism_AsStated ==
    /\ PollFound => FoundAtFirstMatch
    /\ PollTimedOut =>
          ~((Len(polled) + 1) * polling_interval < edr_polling_timeout_seconds)

\* C1 amended: the poller returns the first finalized match after exactly N queries
\* whenever the N-th attempt starts before the deadline; it ends empty-handed only
\* with elapsed time >= timeout, and N x interval < timeout is enough when queries
\* and sleeps take no time beyond the interval.
C1_PollerDeterminism ==
    /\ PollFound => FoundAtFirstMatch
    /\ PollTimedOut =>
          /\ \A k \in 1..Len(polled) : ~polled[k]
          /\ clock >= edr_polling_timeout_seconds
          /\ (PollOverhead = 0 =>
                ~((Len(polled) + 1) * polling_interval < edr_polling_timeout_seconds))

C1_Witness ==
    /\ PollFound
    /\ Len(polled) = 3
    /\ PollOverhead = 0
    /\ 3 * polling_interval < edr_polling_timeout_seconds + 1

\* a natural number that every step of the poller lowers: twice the time left to
\* the deadline, plus the position in the loop
PollMeasure ==
    LET left == IF clock < edr_polling_timeout_seconds
                THEN edr_polling_timeout_seconds - clock ELSE 0
    IN  CASE pc = "poll_call" -> 2 * left + 4
          [] pc = "poll_loop" -> 2 * left + 3
          [] pc = "poll_sleep" -> 2 * left + 2
          [] pc = "poll_return" -> 1
          [] OTHER -> 0

\* C2: when no answer ever holds a finalized match the poller terminates (every step
\* lowers PollMeasure, which stays >= 0, and a step is possible until the caller has
\* the result), with (None, None), only once elapsed time >= timeout, and it sends no
\* query afterwards.
C2_TimeoutTermination ==
    [][/\ PollMeasure' < PollMeasure
       /\ PollMeasure' >= 0
       /\ (pc' # "poll_done" => (ENABLED NextPoll)')
       /\ (pc' = "poll_return" /\ (\A k \in 1..Len(polled') : ~polled'[k])
             => poll_result' = NoResult /\ clock' >= edr_polling_timeout_seconds)
       /\ (pc \in {"poll_return", "poll_done"} => reqs' = reqs)]_vars

C2_Witness ==
    /\ PollTimedOut
    /\ Len(polled) >= 2
    /\ pc = "poll_return"
    /\ edr_polling_timeout_seconds > 0

\* C5: the poller leaves the loop only with a found entry or at the deadline: an
\* error result, a non-list body and a list without a finalized match each lead to
\* the sleep and the next pass while elapsed time < timeout.
C5_OnlyFoundOrTimedOut ==
    [][/\ pc = "poll_loop" =>
            /\ pc' \in {"poll_sleep", "poll_return"}
            /\ pc' = "poll_return" =>
                  \/ poll_result' # NoResult /\ polled'[Len(polled')]
                  \/ poll_result' = NoResult /\ clock' >= edr_polling_timeout_seconds
            /\ (Len(polled') > Len(polled) /\ ~polled'[Len(polled')]
                  /\ clock' < edr_polling_timeout_seconds) => pc' = "poll_sleep"
       /\ pc = "poll_sleep" => pc' = "poll_loop" /\ attempt' = attempt]_vars

C5_Witness ==
    /\ pc = "poll_sleep"
    /\ attempt >= 2
    /\ response_data = [t |-> "scanned", class |-> "error"]
    /\ clock < edr_polling_timeout_seconds

\* C6: a found result is the first entry, in response order, of the last answer that
\* is an object with a transferProcessId and (when a filter is supplied) the
\* filtered assetId; tpid is that entry's transferProcessId.
EntryQualifies(e) ==
    /\ isdict(e)
    /\ Get(e, "transferProcessId") \notin {None, Str("")}
    /\ (asset_id_for_filter \notin {None, Str("")} => Get(e, "assetId") = asset_id_for_filter)

C6_FoundIsFirstFinalizedMatch ==
    PollFound =>
        /\ islist(response_data)
        /\ \E i \in 1..Len(response_data.items) :
              /\ response_data.items[i] = poll_result[2]
              /\ EntryQualifies(poll_result[2])
              /\ poll_result[1] = Get(poll_result[2], "transferProcessId")
              /\ \A j \in 1..(i - 1) : ~EntryQualifies(response_data.items[j])

C6_Witness ==
    /\ PollFound
    /\ asset_id_for_filter = Str("asset-1")
    /\ Len(response_data.items) = 2
    /\ response_data.items[2] = poll_result[2]
    /\ isdict(response_data.items[1])
    /\ Get(response_data.items[1], "assetId") = Str("asset-2")
    /\ Get(response_data.items[1], "transferProcessId") # None

\* C3: in every run of the workflow the stages initiate_contract, get_cached_edrs,
\* get_data_address and access_data are invoked at most once each, in that order,
\* each only when the stage before it has returned a success value; there is at
\* most one negotiation request, one data-address request and one data fetch per
\* run; and a file path is returned only when all the stages were invoked and the
\* download returned that path.
Pipeline == <<"initiate_contract", "get_cached_edrs", "get_data_address", "access_data">>

StagesAfterCatalog == SelectSeq(stages, LAMBDA s : s # "request_catalog")

Invoked(stage) == \E i \in 1..Len(stages) : stages[i] = stage

CountOp(op) == Cardinality({i \in 1..Len(reqs) : reqs[i].op = op})

C7_CredentialByValue_AsStated ==
    pc \in {"fetch_return", "fetch_done"}
       => LET hasEndpoint == Truthy(Get(data_address, "endpoint"))
              hasAuthorization == Truthy(Get(data_address, "authorization"))
              hasAuthCode == Truthy(Get(data_address, "authCode"))
          IN  /\ Len(reqs) = 1 <=> hasEndpoint /\ (hasAuthorization \/ hasAuthCode)
              /\ Len(reqs) = 0 => retrieved_data_path = None
              /\ Len(reqs) = 1
                    => reqs[1].headers =
                          IF hasAuthorization
                          THEN "authorization" :> Get(data_address, "authorization").s
                          ELSE "authCode" :> Get(data_address, "authCode").s

\* C8: every management request of a run (catalog, negotiation, cache query,
\* data-address fetch) carries the X-API-Key header with the configured key; the
\* data fetch carries exactly one header, the credential field of the data address
\* with its value, and no X-API-Key header.
ManagementOps == {"catalog", "negotiate", "edr_query", "data_address"}

C8_HeadersPerPlane ==
    \A i \in 1..Len(reqs) :
       /\ reqs[i].op \in ManagementOps \cup {"data_fetch"}
       /\ reqs[i].op \in ManagementOps
             => /\ "X-API-Key" \in DOMAIN reqs[i].headers
                /\ reqs[i].headers["X-API-Key"] = api_key
       /\ reqs[i].op = "data_fetch"
             => /\ "X-API-Key" \notin DOMAIN reqs[i].headers
                /\ \E k \in {"authorization", "authCode"} :
                      /\ DOMAIN reqs[i].headers = {k}
                      /\ Str(reqs[i].headers[k]) = Get(data_address, k)
                      /\ k = "authCode" => ~HasKey(data_address, "authorization")

C8_Witness ==
    /\ pc = "fetch_return"
    /\ reqs[Len(reqs)].op = "data_fetch"
    /\ \A op \in ManagementOps : CountOp(op) >= 1
    /\ CountOp("edr_query") >= 2

\* the text between the first "filename=" and the next one (or the end)
AssignedText(s) ==
    LET first == CHOOSE i \in 1..Len(s) : s[i] = FN /\ \A j \in 1..(i - 1) : s[j] # FN
        later == {j \in (first + 1)..Len(s) : s[j] = FN}
        last == IF later = {} THEN Len(s)
                ELSE (CHOOSE j \in later : \A k \in later : j <= k) - 1
    IN  SubSeq(s, first + 1, last)

\* the name assigned by the header, quotes stripped from both ends
AssignedName(s) == strip(strip(AssignedText(s), "\""), "'")

\* what follows the last "/" of a name
LastComponent(n) ==
    LET slashes == {i \in 1..Len(n) : n[i] = "/"}
        start == IF slashes = {} THEN 1
                 ELSE (CHOOSE i \in slashes : \A k \in slashes : k <= i) + 1
    IN  SubSeq(n, start, Len(n))

Replaced(n) == [i \in 1..Len(n) |-> IF IsSafeChar(n[i]) THEN n[i] ELSE "_"]

NameDerived == pc = "name_done" /\ Truthy(content_disposition) /\ HasFN(content_disposition.c)

C10_FallbackOnUnusableName_AsStated ==
    NameDerived /\ (\A i \in 1..Len(AssignedName(content_disposition.c)) :
                       ~IsSafeChar(AssignedName(content_disposition.c)[i]))
       => \E epoch \in Epochs : safe_filename.c = fallback_filename(epoch)

\* C11 as the specification states it: get_data_address hands on a data address
\* only for a 2xx outcome, so the workflow calls access_data only when the status
\* of the data-address request was 2xx, and then with the parsed body itself.
C11_NoAddressFromError_AsStated ==
    pc = "fetch_call" /\ mode = "workflow"
       => /\ last_response_status_code \in {Num(n) : n \in 200..299}
          /\ ~(HasKey(data_address, "error") /\ HasKey(data_address, "status_code"))

\* the catalog endpoint answered 2xx with a JSON body
CatalogAnswered ==
    /\ pc = "catalog_return"
    /\ ~scripted.exc
    /\ scripted.status \in 200..299
    /\ scripted.content = "json"

DatasetKeys == {"dcat:dataset", "edc:datasets"}

OtherKey(k) == IF k = "dcat:dataset" THEN "edc:datasets" ELSE "dcat:dataset"

Populated(body, k) == HasKey(body, k) /\ Truthy(Get(body, k))

\* C12 as the specification states it: when one of the keys dcat:dataset and
\* edc:datasets holds a dataset collection D and the other is absent or empty,
\* request_catalog returns what it returns for D delivered under the other key
\* alone, and under the same key alone.
C12_KeyEquivalence_AsStated ==
    CatalogAnswered /\ isdict(scripted.json)
       => \A k \in DatasetKeys :
             Populated(scripted.json, k) /\ ~Populated(scripted.json, OtherKey(k))
                => /\ returned = request_catalog(Dict(OtherKey(k) :> Get(scripted.json, k)),
                                                 target_asset_id)
                   /\ returned = request_catalog(Dict(k :> Get(scripted.json, k)),
                                                 target_asset_id)

\* C13 as the specification states it: with an id filter request_catalog never
\* raises; it returns the not-found result or a dataset whose @id is the filter,
\* and a single-object collection whose @id is the filter is returned.
C13_FilteredNeverRaises_AsStated ==
    pc = "catalog_return" /\ Truthy(target_asset_id)
       => /\ returned # Raised
          /\ returned = None \/ (isdict(returned) /\ Get(returned, "@id") = target_asset_id)
          /\ CatalogAnswered /\ isdict(scripted.json)
                => \A k \in DatasetKeys :
                      /\ DOMAIN scripted.json.kv = {k}
                      /\ isdict(Get(scripted.json, k))
                      /\ Get(Get(scripted.json, k), "@id") = target_asset_id
                      => returned = Get(scripted.json, k)

\* C14: whatever request_catalog returns other than None comes from a 2xx JSON
\* object, out of the value D of one of its dataset keys: with a filter it is a
\* dataset whose @id is the filter, D itself when D is an object, and when D is a
\* list the first element of D that is an object with that @id; without a filter
\* it is a list, D itself when D is a list and the one-element list of D when D is
\* an object.
IsMatch(item, id) == isdict(item) /\ Get(item, "@id") = id

WellFormed(D) ==
    \/ isdict(D) /\ HasKey(D, "@id")
    \/ islist(D) /\ \A i \in 1..Len(D.items) : isdict(D.items[i])

Lacks(D, id) ==
    IF isdict(D) THEN ~IsMatch(D, id)
    ELSE \A i \in 1..Len(D.items) : ~IsMatch(D.items[i], id)

ExplicitError == pc = "catalog_return" /\ (scripted.exc \/ scripted.status \notin 200..299)

AssetNotFound ==
    /\ CatalogAnswered
    /\ isdict(scripted.json)
    /\ Truthy(target_asset_id)
    /\ \E k \in DatasetKeys :
          /\ DOMAIN scripted.json.kv = {k}
          /\ WellFormed(Get(scripted.json, k))
          /\ Lacks(Get(scripted.json, k), target_asset_id)

UnexpectedShape ==
    /\ CatalogAnswered
    /\ isdict(scripted.json)
    /\ \/ \A k \in DatasetKeys : ~HasKey(scripted.json, k)
       \/ \E k \in DatasetKeys :
             /\ DOMAIN scripted.json.kv = {k}
             /\ ~isdict(Get(scripted.json, k))
             /\ ~islist(Get(scripted.json, k))

\* what request_catalog returns for a transport failure, and for an answer
\* without a datasets key
ResultOfExplicitError == request_catalog(_send_request(RawExc, FALSE), target_asset_id)
ResultOfUnexpectedShape ==
    request_catalog(Dict("@type" :> Str("dcat:Catalog")), target_asset_id)

\* C15 as the specification states it: asset not found, explicit error and
\* unexpected catalog shape are told apart by the value request_catalog returns.
C15_FailureKindsApart_AsStated ==
    /\ AssetNotFound => returned \notin {ResultOfExplicitError, ResultOfUnexpectedShape}
    /\ UnexpectedShape => returned # ResultOfExplicitError

\* C15: request_catalog reports asset not found, explicit error and unexpected
\* catalog shape (an object without a datasets key, or with a datasets value that
\* is neither an object nor a list) by one and the same value, None.
C15_FailureKindsCollapse ==
    ExplicitError \/ AssetNotFound \/ UnexpectedShape => returned = None

C15_Witness ==
    /\ AssetNotFound
    /\ scripted.json = Dict("edc:datasets" :> List(<<Dataset(Str("asset-2"), Policy2)>>))
    /\ returned = None
    /\ ResultOfExplicitError = None
    /\ ResultOfUnexpectedShape = None

\* the policy of the negotiation request that was sent
SentPolicy == Get(reqs[Len(reqs)].body, "policy")

AugmentedKeys == {"odrl:target", "odrl:assigner", "@type"}

\* C16: the policy in the negotiation body has odrl:target = {@id: asset id} and
\* odrl:assigner = {@id: provider BPN} whatever the input policy held there, has
\* the input's @type when it had one and odrl:Offer otherwise, has the input's
\* value in every other field and no further field; the rest of the body is the
\* same for every input.
C16_PolicyAugmentation ==
    pc = "negotiate_return"
       => /\ Len(reqs) = 1
          /\ Get(SentPolicy, "odrl:target") = Dict("@id" :> asset_id_to_process)
          /\ Get(SentPolicy, "odrl:assigner") = Dict("@id" :> Str(provider_bpn))
          /\ Get(SentPolicy, "@type") =
                IF HasKey(policy_object_to_process, "@type")
                THEN Get(policy_object_to_process, "@type")
                ELSE Str("odrl:Offer")
          /\ DOMAIN SentPolicy.kv = DOMAIN policy_object_to_process.kv \cup AugmentedKeys
          /\ \A k \in DOMAIN policy_object_to_process.kv \ AugmentedKeys :
                SentPolicy.kv[k] = policy_object_to_process.kv[k]
          /\ DOMAIN reqs[1].body.kv =
                {"@context", "@type", "counterPartyAddress", "protocol", "policy"}
          /\ Get(reqs[1].body, "@type") = Str("ContractRequest")
          /\ Get(reqs[1].body, "protocol") = Str("dataspace-protocol-http")
          /\ Get(reqs[1].body, "counterPartyAddress") = Str("provider_protocol_url")
          /\ Get(reqs[1].body, "@context") = ContractContext

C16_Witness ==
    /\ pc = "negotiate_return"
    /\ asset_id_to_process = Str("asset-1")
    /\ Get(policy_object_to_process, "odrl:target") = Dict("@id" :> Str("other"))
    /\ Get(policy_object_to_process, "odrl:assigner") = Dict("@id" :> Str("BPNL-OTHER"))
    /\ ~HasKey(policy_object_to_process, "@type")
    /\ Get(SentPolicy, "odrl:target") = Dict("@id" :> Str("asset-1"))
    /\ Get(SentPolicy, "@type") = Str("odrl:Offer")

\* C17: the policy object passed to initiate_contract has the same keys and the
\* same values after the call as before it, whether the call returns a
\* negotiation id, returns (None, None) or raises.
C17_PolicyArgumentUnchanged ==
    [][pc = "negotiate_call" => policy_object_to_process' = policy_object_to_process]_vars

C17_Witness ==
    /\ pc = "negotiate_return"
    /\ scripted = RawJson(200, Dict("@id" :> Str("neg-1")))
    /\ returned = <<Str("neg-1"), Dict("@id" :> Str("neg-1"))>>
    /\ ~HasKey(policy_object_to_process, "@type")
    /\ Get(policy_object_to_process, "odrl:target") = Dict("@id" :> Str("other"))
    /\ SentPolicy # policy_object_to_process

\* C18 as the specification states it: the workflow goes on to the EDR cache only
\* with a negotiation id taken from a 2xx body; after any other answer to the
\* negotiation request initiate_contract has returned (None, None) and the run has
\* ended with None, no EDR cache query issued.
C18_NoIdIsFailure_AsStated ==
    /\ pc = "poll_call" => /\ last_response_status_code \in {Num(n) : n \in 200..299}
                           /\ Truthy(edr_id)
    /\ Invoked("initiate_contract") /\ ~Truthy(edr_id)
          => /\ pc = "wf_done"
             /\ wf_result = None
             /\ CountOp("edr_query") = 0

\* the six outcomes of one _send_request call
Is2xx == ~scripted.exc /\ scripted.status \in 200..299

SendCase ==
    CASE scripted.exc -> "transport_failure"
      [] ~Is2xx -> "error_status"
      [] reqs[1].stream -> "stream_handle"
      [] scripted.content = "empty" -> "no_content"
      [] scripted.content = "json" -> "parsed_body"
      [] OTHER -> "non_json"

OpOf(stage) ==
    CASE stage = "request_catalog" -> "catalog"
      [] stage = "initiate_contract" -> "negotiate"
      [] stage = "get_data_address" -> "data_address"
      [] stage = "access_data" -> "data_fetch"
      [] OTHER -> "edr_query"

\* C20: every step of a run sends at most one request; the step that invokes
\* request_catalog, initiate_contract or get_data_address sends exactly one, of
\* its own kind, whatever the answer; the step that invokes access_data sends at
\* most one; the only requests sent outside these invocations are the cache
\* queries of the poller, one per attempt; no negotiation, data-address or data
\* request is sent a second time.
C20_OneRequestPerCall ==
    [][/\ Len(reqs') \in {Len(reqs), Len(reqs) + 1}
       /\ Len(reqs') = Len(reqs) + 1 => SubSeq(reqs', 1, Len(reqs)) = reqs
       /\ (stages' # stages /\ stages'[Len(stages')] # "get_cached_edrs"
              => /\ stages'[Len(stages')] # "access_data" => Len(reqs') = Len(reqs) + 1
                 /\ Len(reqs') = Len(reqs) + 1
                       => reqs'[Len(reqs')].op = OpOf(stages'[Len(stages')]))
       /\ (stages' = stages /\ reqs' # reqs
              => /\ pc = "poll_loop"
                 /\ attempt' = attempt + 1
                 /\ reqs'[Len(reqs')].op = "edr_query")
       /\ (\A op \in {"negotiate", "data_address", "data_fetch"} :
              Cardinality({i \in 1..Len(reqs') : reqs'[i].op = op}) <= 1)]_vars

C20_Witness ==
    /\ pc = "wf_done"
    /\ wf_result = None
    /\ stages = <<"request_catalog", "initiate_contract">>
    /\ Len(reqs) = 2
    /\ last_response_status_code = Num(400)

\* C21 as stated: whenever get_cached_edrs has returned (found, timed out at the
\* start of an attempt, or timed out before the sleep), the attempt count it reports
\* in its log lines equals the number of cache queries it issued.
C21_AttemptCountIsQueryCount_AsStated == PollReturned => attempt = Queries

\* the handles that the log shows opened and not closed since
Occurrences(log, event) == Len(SelectSeq(log, LAMBDA e : e = event))

StillOpen(log) ==
    { h \in {"response", "file"} :
        Occurrences(log, h \o ".open") > Occurrences(log, h \o ".close") }

GotResponseHandle == Occurrences(handle_log, "response.open") > 0

\* C22: whenever the streaming GET handed access_data an open response, neither the
\* response nor the destination file is open once access_data is left, whether the
\* write completed, open() failed, or the write loop was left by an exception (an
\* IOError that is caught, or any other exception that propagates); the file is closed
\* before the response is.
C22_HandlesReleased ==
    (pc \in {"fetch_return", "fetch_done", "wf_done"} /\ GotResponseHandle)
       => /\ StillOpen(handle_log) = {}
          /\ handle_log[Len(handle_log)] = "response.close"
          /\ retrieved_data_path.t \in {"path", "none", "raised"}
          /\ (retrieved_data_path.t = "path") => Occurrences(handle_log, "file.open") = 1

\* the write loop was left by an exception that no clause catches, with both handles
\* opened before it
C22_Witness ==
    /\ pc = "fetch_return"
    /\ GotResponseHandle
    /\ Occurrences(handle_log, "file.open") = 1
    /\ retrieved_data_path = Raised

\* the operations of the requests sent so far, in order
Ops == [i \in 1..Len(reqs) |-> reqs[i].op]

ScenarioEntry == Entry(Str("asset-1"), Str("tp-1"), Str("edr-1"))

ScenarioAddress ==
    Dict(("endpoint" :> Str("https://x/data")) @@ ("authorization" :> Str("tok")))

\* the run has ended and every answer it received was the one of the end-to-end
\* scenario: the catalog gave dataset asset-1 with policy p1, the negotiation gave
\* neg-1, the cache queries before the third found no finalized match and the third
\* (if sent) gave the entry edr-1, the address request (if sent) gave endpoint and
\* authorization, the download (if sent) gave a response without Content-Disposition
ScenarioAnswers ==
    /\ pc = "wf_done"
    /\ CountOp("catalog") = 1
    /\ asset_id_to_process = Str("asset-1")
    /\ isdict(policy_object_to_process)
    /\ Get(policy_object_to_process, "@id") = Str("p1")
    /\ CountOp("negotiate") = 1
    /\ edr_id = Str("neg-1")
    /\ CountOp("edr_query") <= 3
    /\ IF CountOp("edr_query") = 3
       THEN poll_result = <<Str("tp-1"), ScenarioEntry>>
       ELSE poll_result = NoResult
    /\ CountOp("data_address") = 1 => data_address = ScenarioAddress
    /\ CountOp("data_fetch") = 1 => GotResponseHandle /\ content_disposition = None

ScenarioRequests ==
    <<"catalog", "negotiate", "edr_query", "edr_query", "edr_query", "data_address",
      "data_fetch">>

ScenarioCompleted ==
    /\ Ops = ScenarioRequests
    /\ reqs[6].method = "GET"
    /\ reqs[6].url = <<"data", "v2", "edrs", "edr-1", "dataaddress">>
    /\ reqs[7] = DataFetch(ScenarioAddress)

Written == handle_log = <<"response.open", "file.open", "file.close", "response.close">>

WriteFailed ==
    \/ Occurrences(handle_log, "file.open_failed") = 1
    \/ Occurrences(handle_log, "loop.IOError") = 1

\* C24: when opening or writing the destination file fails, access_data returns no
\* path (None), exactly one download request has been sent, and the workflow's next
\* and last step is to return None without sending anything more.
C24_WriteFailureIsFailure ==
    /\ (pc \in {"fetch_return", "fetch_done", "wf_done"} /\ WriteFailed)
          => /\ retrieved_data_path = None
             /\ CountOp("data_fetch") = 1
             /\ reqs[Len(reqs)].op = "data_fetch"
             /\ pc = "wf_done" => wf_result = None
    /\ (pc = "fetch_return" /\ WriteFailed /\ mode = "workflow") => ENABLED WfFinish

C24_Witness ==
    /\ pc = "wf_done"
    /\ Occurrences(handle_log, "loop.IOError") = 1
    /\ wf_result = None
    /\ CountOp("data_fetch") = 1

\* C25: a cache query is sent, and a sleep between attempts is started, only in a
\* state whose elapsed time is below the timeout; with a timeout of zero or less the
\* first pass of the loop returns the timed-out result and no query is ever sent.
C25_DeadlineBeforeQueryAndSleep ==
    [][ /\ Queries' > Queries => clock < edr_polling_timeout_seconds
        /\ (pc = "poll_sleep" /\ pc' = "poll_loop") => clock < edr_polling_timeout_seconds
        /\ (pc = "poll_loop" /\ edr_polling_timeout_seconds <= 0)
              => /\ pc' = "poll_return"
                 /\ poll_result' = NoResult
                 /\ Queries' = 0 ]_vars

\* a sleep has been started and a second query sent, both before the deadline
C25_Witness ==
    /\ pc = "poll_return"
    /\ Queries = 2
    /\ attempt = 3
    /\ poll_result = NoResult
    /\ clock >= edr_polling_timeout_seconds

\* C26 as stated: the entry the workflow accepts from the poller and resolves the data
\* address for was not in the provider's cache before this run's negotiation: a
\* finalized entry for the same asset and provider that an earlier run left there is
\* never the entry returned.
C26_AcceptedEntryIsFresh_AsStated ==
    Invoked("get_data_address") => poll_result[2] \notin edr_cache_before

\* the run has a target, negotiation has been initiated, and the only catalog request
\* is the filtered one (the listing for a selection by the user was not asked for)
NegotiatedWithoutFallback ==
    /\ Truthy(target_asset_id)
    /\ Invoked("initiate_contract")
    /\ CountOp("catalog") = 1

\* C27: in a run with a target asset id that reaches negotiation without the
\* selection fallback, the asset id determined, the one in the negotiation request
\* and the asset filter of every cache query equal the target asset id.
C27_NegotiatedAssetIsTarget ==
    NegotiatedWithoutFallback
       => /\ asset_id_to_process = target_asset_id
          /\ reqs[1] = CatalogRequest(target_asset_id)
          /\ reqs[2] = ContractRequest(target_asset_id, policy_object_to_process)
          /\ Get(Get(reqs[2].body, "policy"), "odrl:target") = Dict("@id" :> target_asset_id)
          /\ Invoked("get_cached_edrs") => asset_id_for_filter = target_asset_id
          /\ \A i \in 1..Len(reqs) :
                reqs[i].op = "edr_query" => reqs[i] = EdrQuery(target_asset_id)

C27_Witness ==
    /\ NegotiatedWithoutFallback
    /\ target_asset_id = Str("asset-1")
    /\ CountOp("edr_query") = 2
    /\ asset_id_for_filter = Str("asset-1")

ExtractReturned == pc = "extract_return"

\* dataset_data is a single dataset with an @id other than the requested one
MismatchedDataset ==
    /\ isdict(all_datasets)
    /\ Truthy(target_asset_id)
    /\ Truthy(Get(all_datasets, "@id"))
    /\ Get(all_datasets, "@id") # target_asset_id

\* odrl:hasPolicy of the dataset d is a list that begins with a non-empty object
HasFirstPolicy(d) ==
    LET policies == Get(d, "odrl:hasPolicy")
    IN  /\ islist(policies)
        /\ Len(policies.items) >= 1
        /\ isdict(policies.items[1])
        /\ Truthy(policies.items[1])

\* dataset_data is a list none of whose elements is a dataset with the requested id
ListWithoutRequested ==
    /\ islist(all_datasets)
    /\ Truthy(target_asset_id)
    /\ \A i \in 1..Len(all_datasets.items) :
          ~(isdict(all_datasets.items[i])
            /\ Get(all_datasets.items[i], "@id") = target_asset_id)

\* C28: given a single dataset whose @id differs from the requested asset id, the
\* extraction proceeds with it and returns its own id and its first policy; given a
\* list in which no element has the requested id, it returns (None, None).
C28_MismatchProceeds ==
    /\ (ExtractReturned /\ MismatchedDataset /\ HasFirstPolicy(all_datasets))
          => returned = <<Get(all_datasets, "@id"),
                          Get(all_datasets, "odrl:hasPolicy").items[1]>>
    /\ (ExtractReturned /\ ListWithoutRequested) => returned = NoResult

C28_Witness ==
    /\ ExtractReturned
    /\ target_asset_id = Str("asset-1")
    /\ all_datasets = Dataset(Str("asset-2"), List(<<Policy1, Policy2>>))
    /\ returned = <<Str("asset-2"), Policy1>>

\* the policy the claim expects for the dataset d: the first element of a non-empty
\* list, a single object itself, and none when odrl:hasPolicy is absent, empty or of
\* another type
ExpectedPolicy(d) ==
    LET policies == Get(d, "odrl:hasPolicy")
    IN  IF islist(policies) /\ policies.items # <<>> THEN policies.items[1]
        ELSE IF isdict(policies) /\ Truthy(policies) THEN policies
        ELSE None

\* C29 as stated: for every target dataset the extraction returns without raising;
\* the policy in its result is the first element of a non-empty odrl:hasPolicy list,
\* or the single policy object, and the result is (None, None) when odrl:hasPolicy is
\* absent, empty or of another type; the result never holds an asset id without a
\* policy or a policy without an asset id.
C29_PolicyExtraction_AsStated ==
    (ExtractReturned /\ isdict(all_datasets) /\ Truthy(all_datasets))
       => /\ returned # Raised
          /\ (returned[1] = None) <=> (returned[2] = None)
          /\ ExpectedPolicy(all_datasets) = None => returned = NoResult
          /\ (ExpectedPolicy(all_datasets) # None /\ Truthy(Get(all_datasets, "@id")))
                => returned = <<Get(all_datasets, "@id"), ExpectedPolicy(all_datasets)>>

\* C30 as stated: once a _send_request call has returned, last_response_status_code
\* describes that request: the status code of its response when one was received, and
\* no status code (None) when it failed at the transport level, whatever an earlier
\* request had left there.
C30_StatusOfMostRecentRequest_AsStated ==
    pc = "send_return"
       => last_response_status_code =
             IF scripted.exc THEN None ELSE Num(scripted.status)

\* the file that access_data opened for writing, if any
FileOpened == Occurrences(handle_log, "file.open") = 1

\* C31: whatever Content-Disposition value the data endpoint sends, safe_filename is
\* not empty and holds only alphanumerics, ".", "_" and "-" (so no path separator);
\* a file is opened only under a name other than "." and "..", so it is a direct
\* child of the artifact directory, and the path returned is that directory joined
\* with safe_filename.
C31_PathContainment ==
    (pc \in {"fetch_return", "fetch_done"} /\ GotResponseHandle)
       => /\ safe_filename.c # <<>>
          /\ \A i \in 1..Len(safe_filename.c) :
                IsSafeChar(safe_filename.c[i]) /\ safe_filename.c[i] \notin {"/", "\\"}
          /\ FileOpened => safe_filename.c \notin { <<".">>, <<".", ".">> }
          /\ ~FileOpened => retrieved_data_path = None
          /\ retrieved_data_path.t = "path"
                => /\ FileOpened
                   /\ retrieved_data_path.dir = "ARTIFACT_DOWNLOAD_PATH"
                   /\ retrieved_data_path.name = safe_filename.c

\* the header filename=./a: the file written is <artifactDir>/a
C31_Witness ==
    /\ pc = "fetch_return"
    /\ content_disposition = Chars(<<FN, ".", "/", "a">>)
    /\ FileOpened
    /\ retrieved_data_path = FilePath(<<"a">>)

\* the poller has handed a finalized entry to the workflow
EntryAccepted ==
    /\ pc \in {"fetch_call", "fetch_return", "wf_done"}
    /\ poll_result # NoResult

\* C32: when the entry returned by the poller has no @id (or an empty one) the
\* workflow returns None and sends no data-address request; otherwise the one
\* data-address request is a GET whose URL names the entry's @id, which is neither the
\* negotiation id returned by initiate_contract nor the transferProcessId.
C32_AddressedByEntryId ==
    /\ (EntryAccepted /\ ~Truthy(Get(poll_result[2], "@id")))
          => /\ pc = "wf_done"
             /\ wf_result = None
             /\ CountOp("data_address") = 0
             /\ ~Invoked("get_data_address")
    /\ \A i \in 1..Len(reqs) :
          reqs[i].op = "data_address"
             => /\ poll_result # NoResult
                /\ reqs[i].method = "GET"
                /\ reqs[i].url =
                      <<"data", "v2", "edrs", Get(poll_result[2], "@id").s, "dataaddress">>
                /\ reqs[i].url[4] # edr_id.s
                /\ reqs[i].url[4] # poll_result[1].s

C32_Witness ==
    /\ pc = "fetch_call"
    /\ edr_id = Str("neg-1")
    /\ poll_result[1] = Str("tp-2")
    /\ reqs[Len(reqs)].op = "data_address"
    /\ reqs[Len(reqs)].url[4] = "edr-2"

EntriesOrder ==
    <<"create_asset", "create_access_policy", "create_usage_policy",
      "create_contract_definition">>

\* the answer carries an id, or is the conflict marker made from a 409
AcceptedAnswer(a) ==
    /\ isdict(a)
    /\ (Truthy(Get(a, "@id")) \/ Get(a, "status") = Str("conflict"))

\* C33: the provider's requests go out in the order asset, access policy, usage
\* policy, contract definition, each at most once; a policy request only after an
\* accepted asset answer; the contract-definition request only after two accepted
\* policy answers; and the value returned is a result without an error key exactly
\* when all four answers were accepted.
C33_ProviderEntries ==
    /\ Len(reqs) <= 4
    /\ Ops = SubSeq(EntriesOrder, 1, Len(reqs))
    /\ Len(answers) = Len(reqs)
    /\ Len(reqs) >= 2 => AcceptedAnswer(answers[1])
    /\ Len(reqs) = 4 => AcceptedAnswer(answers[2]) /\ AcceptedAnswer(answers[3])
    /\ (Len(reqs) = 3 /\ pc = "entries_return" /\ returned # Raised)
          => ~(AcceptedAnswer(answers[2]) /\ AcceptedAnswer(answers[3]))
    /\ (pc = "entries_return" /\ returned # Raised)
          => ((isdict(returned) /\ ~HasKey(returned, "error"))
                <=> (Len(answers) = 4 /\ \A i \in 1..4 : AcceptedAnswer(answers[i])))

\* all four accepted, the usage policy by a 409 conflict
C33_Witness ==
    /\ pc = "entries_return"
    /\ Len(reqs) = 4
    /\ Get(answers[3], "status") = Str("conflict")
    /\ returned = Dict(("assetId" :> Str("asset-1")) @@ ("accessPolicyId" :> Str("ap-1"))
                       @@ ("usagePolicyId" :> Str("up-1"))
                       @@ ("contractDefinitionId" :> Str("cd-1")))

====
